---------------------------- MODULE Spec2Model ----------------------------
(***************************************************************************)
(* Comment tree manager of the blog frontend (CommentList component).      *)
(*                                                                         *)
(* The component keeps the forest of comments of one blog in the React     *)
(* state `comments` and changes it only through functional updaters        *)
(* (setComments(prev => ...)) that run when a server response has been     *)
(* accepted.  The model keeps the forest as a TLA+ value, applies the      *)
(* updaters exactly as the source computes them and records, next to the   *)
(* forest, the forest the updater was given and the arguments it ran with. *)
(*                                                                         *)
(* A comment is a record whose optional fields (replies, edited, editedAt) *)
(* are present in the record's DOMAIN exactly when the JavaScript object   *)
(* has the property.  The object spread {...a, ...b} is  b @@ a.           *)
(***************************************************************************)
EXTENDS Integers, Sequences, FiniteSets, TLC

(***************************************************************************)
(* Bounds of the model.                                                    *)
(***************************************************************************)
MaxNodes == 3   \* number of comments in a forest delivered by the server
MaxOps   == 1   \* number of accepted like / edit / delete responses applied to one delivered forest
MaxRequests == 3 \* number of suggestion requests the SearchBox sends
TickMs == 150    \* milliseconds between two observations of the timers
PageTickMs == 500 \* milliseconds between two observations of the blog page's timers
MaxCalls == 2    \* number of comment requests (submit, like, edit, delete) sent from one page
MaxFetches == 2  \* number of list fetches waiting for their answer at one time
MaxBlogs == 3    \* number of blogs GET /blogs/getAll delivers
MaxVisits == 2   \* number of clicks on a blog link of HomePage in one session
MaxEmojis == 2   \* number of emojis picked into one comment text

(***************************************************************************)
(* Constants of the program.                                               *)
(***************************************************************************)
DebounceMs == 300
maxRetries == 3
AbortMs == 10000
ViewDebounceMs == 1000
maxLength == 500
slideLimit == 3

(***************************************************************************)
(* Values.                                                                 *)
(***************************************************************************)
NULL == "<null>"          \* JavaScript null / undefined of a string-valued slot

IdSeq == <<"1", "2", "3">>
Ids == { IdSeq[k] : k \in 1..Len(IdSeq) }   \* comment ids of a delivered forest
NewIds == {"4"}           \* id the server gives to a newly created comment
AllKnownIds == Ids \cup NewIds

\* author of a comment: a User object {_id, username}; usernames have at
\* least three characters (registration schema)
UserOf(i) ==
    CASE i = "1" -> [_id |-> "u1", username |-> "alice"]
      [] i = "2" -> [_id |-> "u2", username |-> "bob"]
      [] i = "3" -> [_id |-> "u3", username |-> "carol"]
      [] OTHER   -> [_id |-> "u4", username |-> "dave"]

\* likes arrays a like response can carry
LikesLists == {<<>>, <<"u2", "u1">>}
\* text typed into the edit box, and the timestamp taken on save
EditTexts == {"t1"}
EditStamps == {"e1"}

\* a comment object without the optional `replies` property
Leaf(i, p) ==
    [_id |-> i, text |-> "t0", user |-> UserOf(i), likes |-> <<>>,
     parentComment |-> p]

\* a comment object with a `replies` array
WithReplies(c, r) == [replies |-> r] @@ c

\* a comment without replies as the server serialises it: with an empty
\* replies array (arr) or without the property
Childless(i, p, arr) == IF arr THEN WithReplies(Leaf(i, p), <<>>) ELSE Leaf(i, p)

RECURSIVE TreesN(_, _, _), ForestsN(_, _, _)
\* all comment trees of exactly n nodes whose root answers comment p
TreesN(n, p, arr) ==
    UNION { IF n = 1 THEN { Childless(i, p, arr) }
            ELSE { WithReplies(Leaf(i, p), r) : r \in ForestsN(n - 1, i, arr) }
            : i \in Ids }
\* all sequences of comment trees with n nodes in total
ForestsN(n, p, arr) ==
    IF n = 0 THEN { <<>> }
    ELSE UNION { { <<t>> \o rest : t \in TreesN(k, p, arr),
                                   rest \in ForestsN(n - k, p, arr) }
                 : k \in 1..n }

\* the ids of a forest in depth-first, left-to-right order
RECURSIVE PreorderIds(_)
PreorderIds(forest) ==
    IF forest = <<>> THEN <<>>
    ELSE <<forest[1]._id>>
           \o (IF "replies" \in DOMAIN forest[1] THEN PreorderIds(forest[1].replies) ELSE <<>>)
           \o PreorderIds(Tail(forest))

\* ids are opaque: of the forests that differ only by a renaming of the ids,
\* one is kept, the one whose ids are first used in the order of IdSeq
FirstUseOrder(ids) ==
    \A k \in 1..Len(ids) :
        LET used == { ids[j] : j \in 1..(k - 1) } IN
        ids[k] \in used \/ ids[k] = IdSeq[Cardinality(used) + 1]

\* the forests GET /blogs/:id/comment can deliver (ids need not be unique)
ServerForests ==
    { f \in UNION { ForestsN(n, NULL, arr) : n \in 0..MaxNodes, arr \in BOOLEAN } :
        FirstUseOrder(PreorderIds(f)) }

\* JavaScript truthiness of a string-or-null value
Truthy(v) == v # NULL /\ v # ""

HasReplies(comment) == "replies" \in DOMAIN comment

(***************************************************************************)
(* The tree functions of CommentList.                                      *)
(***************************************************************************)
\* variant: the result of the search in the first replies array is returned
\* as it is, found or not
RECURSIVE findParentUsernameFrom_returnsFirst(_, _, _)
findParentUsernameFrom_returnsFirst(comments, parentId, k) ==
    IF k > Len(comments) THEN NULL
    ELSE LET comment == comments[k] IN
         IF comment._id = parentId THEN comment.user.username
         ELSE IF HasReplies(comment)
              THEN findParentUsernameFrom_returnsFirst(comment.replies, parentId, 1)
              ELSE findParentUsernameFrom_returnsFirst(comments, parentId, k + 1)

RECURSIVE findParentUsername(_, _), findParentUsernameFrom(_, _, _)
\* the for-loop of findParentUsername, from the k-th comment on
findParentUsernameFrom(comments, parentId, k) ==
    IF k > Len(comments) THEN NULL
    ELSE LET comment == comments[k] IN
         IF comment._id = parentId THEN comment.user.username
         ELSE LET found == IF HasReplies(comment)
                           THEN findParentUsername(comment.replies, parentId)
                           ELSE NULL
              IN IF Truthy(found) THEN found
                 ELSE findParentUsernameFrom(comments, parentId, k + 1)

findParentUsername(comments, parentId) ==
    IF ~Truthy(parentId) THEN NULL
    ELSE findParentUsernameFrom(comments, parentId, 1)

\* variant: the rebuilt ancestor keeps only its replies
RECURSIVE updateComment_dropsAncestorFields(_, _, _)
updateComment_dropsAncestorFields(comments, commentId, updates) ==
    [k \in 1..Len(comments) |->
        LET comment == comments[k] IN
        IF comment._id = commentId THEN updates @@ comment
        ELSE IF HasReplies(comment)
             THEN [replies |-> updateComment_dropsAncestorFields(comment.replies,
                                                                 commentId, updates)]
             ELSE comment]

RECURSIVE updateComment(_, _, _)
updateComment(comments, commentId, updates) ==
    [k \in 1..Len(comments) |->
        LET comment == comments[k] IN
        IF comment._id = commentId THEN updates @@ comment
        ELSE IF HasReplies(comment)
             THEN [replies |-> updateComment(comment.replies, commentId, updates)]
                    @@ comment
             ELSE comment]

\* variant: the replies are not searched
updateCommentLikes_topLevelOnly(comments, commentId, newLikes) ==
    [k \in 1..Len(comments) |->
        LET comment == comments[k] IN
        IF comment._id = commentId THEN [likes |-> newLikes] @@ comment
        ELSE comment]

RECURSIVE updateCommentLikes(_, _, _)
updateCommentLikes(comments, commentId, newLikes) ==
    [k \in 1..Len(comments) |->
        LET comment == comments[k] IN
        IF comment._id = commentId THEN [likes |-> newLikes] @@ comment
        ELSE IF HasReplies(comment)
             THEN [replies |-> updateCommentLikes(comment.replies, commentId, newLikes)]
                    @@ comment
             ELSE comment]

\* variant: the new comment is put first in the parent's replies
RECURSIVE addReplyToComment_prepends(_, _, _)
addReplyToComment_prepends(comments, parentId, newComment) ==
    [k \in 1..Len(comments) |->
        LET comment == comments[k] IN
        IF comment._id = parentId
        THEN [replies |-> IF HasReplies(comment)
                          THEN <<newComment>> \o comment.replies
                          ELSE <<newComment>>] @@ comment
        ELSE IF HasReplies(comment)
             THEN [replies |-> addReplyToComment_prepends(comment.replies, parentId,
                                                          newComment)] @@ comment
             ELSE comment]

RECURSIVE addReplyToComment(_, _, _)
addReplyToComment(comments, parentId, newComment) ==
    [k \in 1..Len(comments) |->
        LET comment == comments[k] IN
        IF comment._id = parentId
        THEN [replies |-> IF HasReplies(comment)
                          THEN comment.replies \o <<newComment>>
                          ELSE <<newComment>>] @@ comment
        ELSE IF HasReplies(comment)
             THEN [replies |-> addReplyToComment(comment.replies, parentId, newComment)]
                    @@ comment
             ELSE comment]

\* variant: the negation in front of replies?.some(...) is missing
removeNode_missingNegation(prevComments, commentId) ==
    SelectSeq(prevComments,
              LAMBDA comment :
                 /\ comment._id # commentId
                 /\ HasReplies(comment)
                 /\ \E k \in 1..Len(comment.replies) :
                       comment.replies[k]._id = commentId)

\* the updater handleDelete gives to setComments
removeNode(prevComments, commentId) ==
    SelectSeq(prevComments,
              LAMBDA comment :
                 /\ comment._id # commentId
                 /\ ~(HasReplies(comment) /\
                      \E k \in 1..Len(comment.replies) :
                         comment.replies[k]._id = commentId))

(***************************************************************************)
(* Helpers of the properties: nodes addressed by their position.           *)
(* A path is a non-empty sequence of indices: <<2, 1>> is the first reply  *)
(* of the second top-level comment.                                        *)
(***************************************************************************)
RECURSIVE Paths(_)
Paths(forest) ==
    UNION { { <<k>> } \cup
            (IF HasReplies(forest[k])
             THEN { <<k>> \o q : q \in Paths(forest[k].replies) }
             ELSE {})
          : k \in 1..Len(forest) }

RECURSIVE NodeAt(_, _)
NodeAt(forest, path) ==
    IF Len(path) = 1 THEN forest[path[1]]
    ELSE NodeAt(forest[path[1]].replies, Tail(path))

AllIds(forest) == { NodeAt(forest, q)._id : q \in Paths(forest) }
PathsOf(forest, id) == { q \in Paths(forest) : NodeAt(forest, q)._id = id }
UniqueIds(forest) == \A id \in AllIds(forest) : Cardinality(PathsOf(forest, id)) = 1
PathOf(forest, id) == CHOOSE q \in PathsOf(forest, id) : TRUE

\* q is a proper extension of p: the node at q lies in the subtree below p
Below(p, q) == Len(q) > Len(p) /\ SubSeq(q, 1, Len(p)) = p

\* depth-first, left-to-right (pre-order) order of two different paths
RECURSIVE Before(_, _)
Before(p, q) ==
    IF p = <<>> THEN q # <<>>
    ELSE IF q = <<>> THEN FALSE
    ELSE IF p[1] # q[1] THEN p[1] < q[1]
    ELSE Before(Tail(p), Tail(q))

FirstPathOf(forest, id) ==
    CHOOSE q \in PathsOf(forest, id) :
        \A r \in PathsOf(forest, id) : r = q \/ Before(q, r)

\* the forest with the node at `path` replaced by `node`
RECURSIVE ReplaceAt(_, _, _)
ReplaceAt(forest, path, node) ==
    [k \in 1..Len(forest) |->
        IF k # path[1] THEN forest[k]
        ELSE IF Len(path) = 1 THEN node
        ELSE [replies |-> ReplaceAt(forest[k].replies, Tail(path), node)]
               @@ forest[k]]

\* the forest without the node at `path` (and so without its subtree)
RECURSIVE RemoveAt(_, _)
RemoveAt(forest, path) ==
    IF Len(path) = 1
    THEN SubSeq(forest, 1, path[1] - 1) \o SubSeq(forest, path[1] + 1, Len(forest))
    ELSE [k \in 1..Len(forest) |->
            IF k # path[1] THEN forest[k]
            ELSE [replies |-> RemoveAt(forest[k].replies, Tail(path))] @@ forest[k]]

(***************************************************************************)
(* State.                                                                  *)
(***************************************************************************)
VARIABLES
    comments,       \* CommentList state `comments`: the forest shown
    replyingTo,     \* CommentList state `replyingTo`: id of the comment answered, or NULL
    prevComments,   \* the forest before the last step (what its updater received)
    lastOp,         \* the last step taken, with its arguments (and result)
    insertBase,     \* the forest before the last insertion, kept over the removal of the inserted comment
    nOps            \* number of like / edit / delete responses applied since the forest was delivered

treeVars == <<comments, replyingTo, prevComments, lastOp, insertBase, nOps>>

\* SearchBox (src/components/searchBox.tsx)
VARIABLES
    searchQuery,    \* SearchBox state `searchQuery`, a sequence of characters
    suggestions,    \* SearchBox state `suggestions`
    isModalOpen,    \* SearchBox state `isModalOpen`
    isLoading,      \* SearchBox state `isLoading`
    timers,         \* the pending setTimeout timers of the suggestions effect
    debounce,       \* the timer id the effect's cleanup will clear
    requests,       \* the suggestion requests in flight
    nRequests,      \* number of suggestion requests sent so far
    searchLast      \* the last SearchBox step, with its arguments

searchVars == <<searchQuery, suggestions, isModalOpen, isLoading, timers,
                debounce, requests, nRequests, searchLast>>

\* BlogDetailPage (src/pages/blog/create.tsx)
VARIABLES
    blog,           \* BlogDetailPage state `blog`, or None
    pageLoading,    \* BlogDetailPage state `loading`
    pageError,      \* BlogDetailPage state `error`, or NULL
    retryCount,     \* BlogDetailPage state `retryCount`
    fetching,       \* the fetch of the blog in flight, or None
    viewTimer,      \* the pending timer of the debounced incrementViewCount, or None
    viewRequest,    \* the PATCH /blogs/:id/view in flight, or None
    viewedBlogs,    \* sessionStorage item "viewedBlogs"
    patchLog,       \* the blog ids of the PATCH /blogs/:id/view requests sent, in order
    pageLast        \* the last BlogDetailPage step, with its arguments

pageVars == <<blog, pageLoading, pageError, retryCount, fetching, viewTimer,
              viewRequest, viewedBlogs, patchLog, pageLast>>

\* what the user is shown
VARIABLES
    toast           \* the toast the last step showed, or None

uiVars == <<toast>>

\* CommentList and its top-level CommentInput with their requests
VARIABLES
    token,          \* whether localStorage holds a token
    user,           \* the auth context's user, or None
    commentText,    \* CommentInput state `commentText`, a sequence of characters
    inputLoading,   \* CommentInput state `loading`
    editingComment, \* CommentList state `editingComment`: id of the comment edited, or NULL
    editContent,    \* CommentList state `editContent`
    calls,          \* the handler calls waiting for the answer to their request
    nCalls,         \* number of comment requests sent so far
    route,          \* the route shown
    likeLog         \* for each comment id, the likes list of the last accepted like response
                    \* and the calls that were waiting when it was processed

netVars == <<token, user, commentText, inputLoading, editingComment, editContent,
             calls, nCalls, route, likeLog>>

\* the objects and arrays behind the forest
VARIABLES
    heap,           \* the cells allocated so far; the address of a cell is its index
    root,           \* address of the array the state `comments` refers to
    prevHeap,       \* the heap before the last step
    prevRoot        \* the array `comments` referred to before the last step

heapVars == <<heap, root, prevHeap, prevRoot>>

\* the fetch of the comment list (CommentList.fetchComments)
VARIABLES
    listLoading,    \* CommentList state `loading`
    listError,      \* CommentList state `error`, or NULL
    listFetches,    \* number of fetchComments calls waiting for their answer
    listLast        \* the last step of the fetch, with its answer

listVars == <<listLoading, listError, listFetches, listLast>>

\* HomePage (blog list)
VARIABLES
    blogs,          \* HomePage state `blogs`
    filteredBlogs,  \* HomePage state `filteredBlogs`
    homeLoading,    \* HomePage state `loading`
    homeError,      \* HomePage state `error`, or NULL
    homeFetches,    \* number of fetchBlogs calls waiting for their answer
    homeQuery,      \* HomePage state `searchQuery`, a sequence of characters
    selectedCategory, \* HomePage state `selectedCategory`
    sortBy,         \* HomePage state `sortBy`
    currentSlide,   \* HomePage state `currentSlide`
    homeLast        \* the last HomePage step, with its arguments

homeVars == <<blogs, filteredBlogs, homeLoading, homeError, homeFetches,
              homeQuery, selectedCategory, sortBy, currentSlide, homeLast>>

\* moving between HomePage and BlogDetailPage
VARIABLES
    shownPage,      \* the page shown: "home" or "detail"
    slug,           \* the slug of the blog the detail page shows, or NULL
    homeViews,      \* the handleBlogView calls of HomePage waiting for their answer
    nVisits         \* number of clicks on a blog link so far

viewVars == <<shownPage, slug, homeViews, nVisits>>

\* AuthProvider and the session in localStorage (with token and user above)
VARIABLES
    storedUser,     \* localStorage item "user", parsed, or None
    authLoading     \* AuthProvider state `loading`

authVars == <<storedUser, authLoading>>

\* a route wrapped in ProtectedRoute
VARIABLES
    gate            \* the last render of ProtectedRoute: its props, the user and what it
                    \* returned, or None

gateVars == <<gate>>

\* all but the toast and the state of HomePage
nonHomeVars == <<treeVars, searchVars, pageVars, netVars, heapVars, listVars, viewVars,
                 authVars, gateVars>>
\* all but the toast, the forest and the state of its fetch
nonListVars == <<replyingTo, prevComments, lastOp, insertBase, nOps,
                 searchVars, pageVars, netVars, heapVars, homeVars, viewVars, authVars,
                 gateVars>>
\* all but the toast, the state of HomePage and of BlogDetailPage, and the
\* moves between them
nonViewVars == <<treeVars, searchVars, netVars, heapVars, listVars, authVars, gateVars>>
\* all but the toast, the session, and the state of CommentList and CommentInput
nonAuthVars == <<insertBase, nOps, searchVars, pageVars, heapVars, listVars, homeVars,
                 viewVars, gateVars>>
\* all but the toast, the route and the last render of ProtectedRoute
nonGateVars == <<comments, replyingTo, insertBase, nOps, searchVars, pageVars,
                 token, user, commentText, inputLoading, editingComment, editContent,
                 calls, nCalls, likeLog, heapVars, listVars, homeVars, viewVars, authVars>>

restVars == <<listVars, homeVars, viewVars, authVars, gateVars>>

otherVars == <<searchVars, pageVars, uiVars, netVars, heapVars, restVars>>   \* all but the comment list
nonSearchVars == <<treeVars, pageVars, uiVars, netVars, heapVars, restVars>>
nonPageVars == <<treeVars, searchVars, netVars, heapVars, restVars>>
nonNetVars == <<insertBase, nOps, searchVars, pageVars, heapVars, restVars>>
nonHeapVars == <<replyingTo, insertBase, searchVars, pageVars, uiVars, netVars, restVars>>

vars == <<treeVars, searchVars, pageVars, uiVars, netVars, heapVars, restVars>>

None == [kind |-> "none"]   \* null of an object-valued slot

NoBase == [kind |-> "none"]

\* the comment list as the other components' specifications leave it
TreeIdle ==
    /\ comments = <<>>
    /\ replyingTo = NULL
    /\ prevComments = <<>>
    /\ lastOp = [name |-> "none"]
    /\ insertBase = NoBase
    /\ nOps = 0

\* SearchBox after its first render: the suggestions effect has run once and
\* armed a timer for the empty query
SearchMounted ==
    /\ searchQuery = <<>>
    /\ suggestions = <<>>
    /\ isModalOpen = FALSE
    /\ isLoading = FALSE
    /\ timers = { [id |-> 1, query |-> <<>>, remaining |-> DebounceMs] }
    /\ debounce = 1
    /\ requests = {}
    /\ nRequests = 0
    /\ searchLast = [name |-> "mount"]

\* BlogDetailPage not shown
PageIdle ==
    /\ blog = None
    /\ pageLoading = TRUE
    /\ pageError = NULL
    /\ retryCount = 0
    /\ fetching = None
    /\ viewTimer = None
    /\ viewRequest = None
    /\ viewedBlogs = <<>>
    /\ patchLog = <<>>
    /\ pageLast = [name |-> "none"]

NoToast == toast = None

\* no comment request under way, nobody logged in
NetIdle ==
    /\ token = FALSE
    /\ user = None
    /\ commentText = <<>>
    /\ inputLoading = FALSE
    /\ editingComment = NULL
    /\ editContent = ""
    /\ calls = {}
    /\ nCalls = 0
    /\ route = "blog"
    /\ likeLog = <<>>

\* the heap left out
HeapIdle ==
    /\ heap = <<>>
    /\ root = 0
    /\ prevHeap = <<>>
    /\ prevRoot = 0

\* the comment list fetched
ListIdle ==
    /\ listLoading = FALSE
    /\ listError = NULL
    /\ listFetches = 0
    /\ listLast = [name |-> "none"]

\* HomePage not shown
HomeIdle ==
    /\ blogs = <<>>
    /\ filteredBlogs = <<>>
    /\ homeLoading = TRUE
    /\ homeError = NULL
    /\ homeFetches = 0
    /\ homeQuery = <<>>
    /\ selectedCategory = "All"
    /\ sortBy = "date-desc"
    /\ currentSlide = 0
    /\ homeLast = [name |-> "none"]

\* no blog link clicked
ViewIdle ==
    /\ shownPage = "home"
    /\ slug = NULL
    /\ homeViews = {}
    /\ nVisits = 0

\* AuthProvider has loaded the session: the stored user is the context's
AuthIdle ==
    /\ storedUser = user
    /\ authLoading = FALSE

\* no route wrapped in ProtectedRoute rendered
GateIdle == gate = None

RestIdle == ListIdle /\ HomeIdle /\ ViewIdle /\ AuthIdle /\ GateIdle

OthersIdle == SearchMounted /\ PageIdle /\ NoToast /\ NetIdle /\ HeapIdle /\ RestIdle

\* comment objects POST /blogs/:id/comment can return for a parentComment sent
\* as p: the server gives the new comment an id no other comment has.  The
\* tree functions never read parentComment; the new comment carries the id of
\* the comment it was inserted under.
NewComments(p) == { Leaf(i, p) : i \in NewIds \ AllIds(comments) }

Init ==
    /\ comments \in ServerForests
    /\ replyingTo = NULL
    /\ prevComments = comments
    /\ lastOp = [name |-> "fetch"]
    /\ insertBase = NoBase
    /\ nOps = 0
    /\ OthersIdle

\* Reply button of a rendered comment
ClickReply(commentId) ==
    /\ commentId \in AllIds(comments)
    /\ replyingTo # commentId
    /\ replyingTo' = commentId
    /\ prevComments' = comments
    /\ lastOp' = [name |-> "clickReply", id |-> commentId]
    /\ insertBase' = NoBase
    /\ UNCHANGED <<comments, nOps, otherVars>>

\* onCancelReply of the reply input
CancelReply ==
    /\ replyingTo # NULL
    /\ replyingTo' = NULL
    /\ prevComments' = comments
    /\ lastOp' = [name |-> "cancelReply"]
    /\ insertBase' = NoBase
    /\ UNCHANGED <<comments, nOps, otherVars>>

\* handleLike, from the accepted response on
LikeSucceeded(commentId, newLikes) ==
    /\ nOps < MaxOps
    /\ comments' = updateCommentLikes(comments, commentId, newLikes)
    /\ prevComments' = comments
    /\ lastOp' = [name |-> "like", id |-> commentId, likes |-> newLikes]
    /\ insertBase' = NoBase
    /\ nOps' = nOps + 1
    /\ UNCHANGED <<replyingTo, otherVars>>

\* handleEdit, from the accepted response on
EditSucceeded(commentId, newText, now) ==
    /\ nOps < MaxOps
    /\ LET updates == [text |-> newText, edited |-> TRUE, editedAt |-> now] IN
       /\ comments' = updateComment(comments, commentId, updates)
       /\ lastOp' = [name |-> "edit", id |-> commentId, updates |-> updates]
    /\ prevComments' = comments
    /\ insertBase' = NoBase
    /\ nOps' = nOps + 1
    /\ UNCHANGED <<replyingTo, otherVars>>

\* handleDelete, from the accepted response on
DeleteSucceeded(commentId) ==
    /\ nOps < MaxOps
    /\ comments' = removeNode(comments, commentId)
    /\ prevComments' = comments
    /\ lastOp' = [name |-> "delete", id |-> commentId]
    /\ insertBase' = IF /\ insertBase.kind = "inserted"
                        /\ insertBase.node._id = commentId
                     THEN [insertBase EXCEPT !.kind = "removed"]
                     ELSE NoBase
    /\ nOps' = nOps + 1
    /\ UNCHANGED <<replyingTo, otherVars>>

\* variant: a top-level comment is put first
handleReplySubmit_prepends(newComment) ==
    /\ IF ~Truthy(replyingTo)
       THEN comments' = <<newComment>> \o comments
       ELSE comments' = addReplyToComment(comments, replyingTo, newComment)
    /\ replyingTo' = NULL
    /\ prevComments' = comments
    /\ lastOp' = [name |-> "submit", parentId |-> replyingTo, node |-> newComment]
    /\ insertBase' = [kind |-> "inserted", before |-> comments,
                      parentId |-> replyingTo, node |-> newComment]
    /\ UNCHANGED <<nOps, otherVars>>

\* handleReplySubmit, called by a CommentInput with the comment the server created
handleReplySubmit(newComment) ==
    /\ IF ~Truthy(replyingTo)
       THEN comments' = comments \o <<newComment>>
       ELSE comments' = addReplyToComment(comments, replyingTo, newComment)
    /\ replyingTo' = NULL
    /\ prevComments' = comments
    /\ lastOp' = [name |-> "submit", parentId |-> replyingTo, node |-> newComment]
    /\ insertBase' = [kind |-> "inserted", before |-> comments,
                      parentId |-> replyingTo, node |-> newComment]
    /\ UNCHANGED <<nOps, otherVars>>

\* renderComment's "Replying to @..." label
RenderReplyingTo(parentId) ==
    /\ lastOp' = [name |-> "find", id |-> parentId,
                  result |-> findParentUsername(comments, parentId)]
    /\ prevComments' = comments
    /\ insertBase' = NoBase
    /\ UNCHANGED <<comments, replyingTo, nOps, otherVars>>

\* the ids a response can be about: the ids of the comments shown, and an id
\* that no comment carries (the comment is gone when the response arrives)
TargetIds == AllIds(comments) \cup NewIds

Next ==
    \/ \E id \in TargetIds : ClickReply(id)
    \/ CancelReply
    \/ \E id \in TargetIds, l \in LikesLists : LikeSucceeded(id, l)
    \/ \E id \in TargetIds, t \in EditTexts, n \in EditStamps : EditSucceeded(id, t, n)
    \/ \E id \in TargetIds : DeleteSucceeded(id)
    \/ \E c \in NewComments(replyingTo) : handleReplySubmit(c)

Spec == Init /\ [][Next]_vars

\* the lookup applied to every delivered forest and every id, null and "" included
FindNext == \E id \in AllKnownIds \cup {NULL, ""} : RenderReplyingTo(id)

FindSpec == Init /\ [][FindNext]_vars

TypeOK ==
    /\ nOps \in 0..MaxOps
    /\ replyingTo \in AllKnownIds \cup {NULL}
    /\ insertBase.kind \in {"none", "inserted", "removed"}

(***************************************************************************)
(* SearchBox: suggestions while the user types.                            *)
(*                                                                         *)
(* The suggestions effect runs after every render in which searchQuery     *)
(* changed: the previous run's cleanup clears the timer that run armed,    *)
(* then a new timer is armed for fetchSuggestions.  A timer is a record    *)
(* [id, query, remaining]: query is the searchQuery its closure captured,  *)
(* remaining the milliseconds left.  A request in flight is [seq, query].  *)
(***************************************************************************)
\* the values typed into the input: empty, blank, and three that differ
\* after trimming or only before it
Queries == { <<>>, <<" ">>, <<"a">>, <<" ", "a">>, <<"a", "b">> }

\* String.prototype.trim
RECURSIVE trimStart(_)
trimStart(str) ==
    IF str # <<>> /\ Head(str) = " " THEN trimStart(Tail(str)) ELSE str
RECURSIVE trimEnd(_)
trimEnd(str) ==
    IF str # <<>> /\ str[Len(str)] = " "
    THEN trimEnd(SubSeq(str, 1, Len(str) - 1))
    ELSE str
trim(str) == trimEnd(trimStart(str))

\* what GET /blogs/getAll?search=q can bring: a body with success true and
\* the matching blogs (none, or one), a body with success false, or a
\* rejection (axios rejects on a network failure and on a non-2xx status)
SuggestionOutcomes(q) ==
    { [kind |-> "body", success |-> TRUE, blogs |-> b] :
          b \in { <<>>, << [_id |-> "b1", title |-> q] >> } }
    \cup { [kind |-> "body", success |-> FALSE, blogs |-> <<>>],
           [kind |-> "rejected"] }

\* the id setTimeout returns: one no pending timer has
NewTimerId(pending) ==
    CHOOSE i \in 1..(Cardinality(pending) + 1) : \A t \in pending : t.id # i

\* variant: the effect has no cleanup
onChange_noCleanup(value) ==
    /\ value # searchQuery
    /\ searchQuery' = value
    /\ LET id == NewTimerId(timers) IN
       /\ timers' = timers \cup { [id |-> id, query |-> value, remaining |-> DebounceMs] }
       /\ debounce' = id
    /\ searchLast' = [name |-> "onChange", requests |-> requests]
    /\ UNCHANGED <<suggestions, isModalOpen, isLoading, requests, nRequests, nonSearchVars>>

\* onChange of the input, and the effect run of the render it causes
onChange(value) ==
    /\ value # searchQuery
    /\ searchQuery' = value
    /\ LET kept == { t \in timers : t.id # debounce }
           id == NewTimerId(kept)
       IN
       /\ timers' = kept \cup { [id |-> id, query |-> value, remaining |-> DebounceMs] }
       /\ debounce' = id
    /\ searchLast' = [name |-> "onChange", requests |-> requests]
    /\ UNCHANGED <<suggestions, isModalOpen, isLoading, requests, nRequests, nonSearchVars>>

\* TickMs milliseconds pass
Tick ==
    /\ \E t \in timers : t.remaining > 0
    /\ timers' = { [t EXCEPT !.remaining = IF @ > TickMs THEN @ - TickMs ELSE 0] :
                      t \in timers }
    /\ UNCHANGED <<searchQuery, suggestions, isModalOpen, isLoading, debounce,
                   requests, nRequests, searchLast, nonSearchVars>>

\* fetchSuggestions, called by the timer t, up to its await
fetchSuggestions(t) ==
    /\ t \in timers
    /\ t.remaining = 0
    /\ timers' = timers \ {t}
    /\ IF trim(t.query) = <<>>
       THEN /\ suggestions' = <<>>
            /\ isModalOpen' = FALSE
            /\ searchLast' = [name |-> "fetchSuggestions", query |-> t.query,
                              sent |-> FALSE, sentBefore |-> nRequests]
            /\ UNCHANGED <<isLoading, requests, nRequests>>
       ELSE /\ nRequests < MaxRequests
            /\ isLoading' = TRUE
            /\ requests' = requests \cup { [seq |-> nRequests + 1, query |-> t.query] }
            /\ nRequests' = nRequests + 1
            /\ searchLast' = [name |-> "fetchSuggestions", query |-> t.query,
                              sent |-> TRUE, sentBefore |-> nRequests]
            /\ UNCHANGED <<suggestions, isModalOpen>>
    /\ UNCHANGED <<searchQuery, debounce, nonSearchVars>>

\* variant: a response that is not the answer to the last request sent is dropped
fetchSuggestionsResumes_dropsStale(r, outcome) ==
    /\ r \in requests
    /\ requests' = requests \ {r}
    /\ IF r.seq # nRequests
       THEN UNCHANGED <<suggestions, isModalOpen, isLoading>>
       ELSE /\ IF outcome.kind = "body" /\ outcome.success
               THEN suggestions' = outcome.blogs /\ isModalOpen' = TRUE
               ELSE suggestions' = <<>> /\ isModalOpen' = FALSE
            /\ isLoading' = FALSE
    /\ searchLast' = [name |-> "response", request |-> r, outcome |-> outcome]
    /\ UNCHANGED <<searchQuery, timers, debounce, nRequests, nonSearchVars>>

\* fetchSuggestions from its await on: the request r is answered
fetchSuggestionsResumes(r, outcome) ==
    /\ r \in requests
    /\ requests' = requests \ {r}
    /\ IF outcome.kind = "body" /\ outcome.success
       THEN suggestions' = outcome.blogs /\ isModalOpen' = TRUE
       ELSE suggestions' = <<>> /\ isModalOpen' = FALSE
    /\ isLoading' = FALSE
    /\ searchLast' = [name |-> "response", request |-> r, outcome |-> outcome]
    /\ UNCHANGED <<searchQuery, timers, debounce, nRequests, nonSearchVars>>

\* mousedown outside the search box
handleClickOutside ==
    /\ isModalOpen
    /\ isModalOpen' = FALSE
    /\ searchLast' = [name |-> "clickOutside"]
    /\ UNCHANGED <<searchQuery, suggestions, isLoading, timers, debounce,
                   requests, nRequests, nonSearchVars>>

\* submit of the search form
handleSearch ==
    /\ trim(searchQuery) # <<>>
    /\ isModalOpen' = FALSE
    /\ searchLast' = [name |-> "search"]
    /\ UNCHANGED <<searchQuery, suggestions, isLoading, timers, debounce,
                   requests, nRequests, nonSearchVars>>

SearchNext ==
    \/ \E value \in Queries : onChange(value)
    \/ Tick
    \/ \E t \in timers : fetchSuggestions(t)
    \/ \E r \in requests : \E o \in SuggestionOutcomes(r.query) : fetchSuggestionsResumes(r, o)
    \/ handleClickOutside
    \/ handleSearch

SearchInit == TreeIdle /\ SearchMounted /\ PageIdle /\ NoToast /\ NetIdle /\ HeapIdle /\ RestIdle

SearchSpec == SearchInit /\ [][SearchNext]_vars

SearchTypeOK ==
    /\ searchQuery \in Queries
    /\ isModalOpen \in BOOLEAN
    /\ isLoading \in BOOLEAN
    /\ nRequests \in 0..MaxRequests
    /\ \A r \in requests : r.seq \in 1..nRequests /\ r.query \in Queries
    /\ \A t \in timers : t.query \in Queries /\ t.remaining \in 0..DebounceMs

(***************************************************************************)
(* BlogDetailPage: loading one blog by its slug, and counting the view.    *)
(*                                                                         *)
(* fetchBlogAndIncrementView runs in an effect after every render in which *)
(* slug, retryCount or blog changed; the model runs it in the step that    *)
(* changes them.  The page shows one slug.  The fetch in flight is         *)
(* [elapsed, retryCount]: the milliseconds since it started (its abort     *)
(* timer is due when they reach AbortMs) and the retryCount its closure    *)
(* captured.                                                               *)
(***************************************************************************)
TimeoutMessage == "Request timed out. Please check your connection."
LoadFailedMessage == "Failed to load blog. It may not exist or the server is unreachable."

TheBlog == [_id |-> "p1", readCount |-> 5]

\* what GET /blogs/slug/:slug can bring
BlogOutcomes ==
    { [kind |-> "body", success |-> TRUE, blog |-> TheBlog],   \* the blog
      [kind |-> "body", success |-> FALSE, blog |-> None],     \* success false, or no blog
      [kind |-> "httpError"],                                  \* status not 2xx
      [kind |-> "notJson"],                                    \* content type not JSON
      [kind |-> "rejected"] }                                  \* network failure

\* what PATCH /blogs/:id/view can bring
ViewOutcomes ==
    { [kind |-> "body", success |-> TRUE, readCount |-> 6],
      [kind |-> "body", success |-> FALSE],
      [kind |-> "httpError"],
      [kind |-> "notJson"],
      [kind |-> "rejected"] }

Accepted(outcome) == outcome.kind = "body" /\ outcome.success

\* fetchBlogAndIncrementView up to its await, in a render whose blog is b
\* and whose retryCount is rc
StartFetch(b, rc) ==
    IF b # None /\ rc = 0
    THEN /\ pageLoading' = FALSE
         /\ fetching' = None
         /\ UNCHANGED pageError
    ELSE /\ pageLoading' = TRUE
         /\ pageError' = NULL
         /\ fetching' = [elapsed |-> 0, retryCount |-> rc]

\* variant: the retry counter is compared with <=
CatchOther_oneMoreRetry ==
    IF fetching.retryCount <= maxRetries
    THEN /\ retryCount' = fetching.retryCount + 1
         /\ StartFetch(blog, fetching.retryCount + 1)
    ELSE /\ pageError' = LoadFailedMessage
         /\ pageLoading' = FALSE
         /\ fetching' = None
         /\ UNCHANGED retryCount

\* the catch and finally blocks for an error that is not an AbortError,
\* and the effect run that follows a change of retryCount
CatchOther ==
    IF fetching.retryCount < maxRetries
    THEN /\ retryCount' = fetching.retryCount + 1
         /\ StartFetch(blog, fetching.retryCount + 1)
    ELSE /\ pageError' = LoadFailedMessage
         /\ pageLoading' = FALSE
         /\ fetching' = None
         /\ UNCHANGED retryCount

\* fetchBlogAndIncrementView from its await on: the fetch is answered
fetchBlogResumes(outcome) ==
    /\ fetching # None
    /\ IF Accepted(outcome) /\ outcome.blog # None
       THEN /\ blog' = outcome.blog
            /\ viewTimer' = [blogId |-> outcome.blog._id, remaining |-> ViewDebounceMs]
            /\ retryCount' = 0
            /\ StartFetch(outcome.blog, 0)
       ELSE /\ CatchOther
            /\ UNCHANGED <<blog, viewTimer>>
    /\ toast' = None
    /\ pageLast' = [name |-> "fetchResponse", outcome |-> outcome,
                    retryCount |-> fetching.retryCount]
    /\ UNCHANGED <<viewRequest, viewedBlogs, patchLog, nonPageVars>>

\* variant: the abort is handled like every other failure
abortTimeout_likeOtherErrors ==
    /\ fetching # None
    /\ fetching.elapsed >= AbortMs
    /\ CatchOther
    /\ toast' = None
    /\ pageLast' = [name |-> "abort", elapsed |-> fetching.elapsed,
                    retryCount |-> fetching.retryCount]
    /\ UNCHANGED <<blog, viewTimer, viewRequest, viewedBlogs, patchLog, nonPageVars>>

\* the abort timer fires: controller.abort() rejects the fetch with an
\* AbortError, which the catch block turns into the timeout message
abortTimeout ==
    /\ fetching # None
    /\ fetching.elapsed >= AbortMs
    /\ pageError' = TimeoutMessage
    /\ pageLoading' = FALSE
    /\ fetching' = None
    /\ toast' = None
    /\ pageLast' = [name |-> "abort", elapsed |-> fetching.elapsed,
                    retryCount |-> fetching.retryCount]
    /\ UNCHANGED <<blog, retryCount, viewTimer, viewRequest, viewedBlogs, patchLog, nonPageVars>>

\* "Try Again" of the error view
TryAgain ==
    /\ pageError # NULL
    /\ StartFetch(blog, retryCount)
    /\ toast' = None
    /\ pageLast' = [name |-> "tryAgain"]
    /\ UNCHANGED <<blog, retryCount, viewTimer, viewRequest, viewedBlogs, patchLog, nonPageVars>>

\* PageTickMs milliseconds pass; no timer is overdue
PageTick ==
    /\ fetching # None \/ viewTimer # None
    /\ fetching # None => fetching.elapsed < AbortMs
    /\ viewTimer # None => viewTimer.remaining > 0
    /\ fetching' = IF fetching = None THEN None
                   ELSE [fetching EXCEPT !.elapsed =
                            IF @ + PageTickMs < AbortMs THEN @ + PageTickMs ELSE AbortMs]
    /\ viewTimer' = IF viewTimer = None THEN None
                    ELSE [viewTimer EXCEPT !.remaining =
                            IF @ > PageTickMs THEN @ - PageTickMs ELSE 0]
    /\ UNCHANGED <<blog, pageLoading, pageError, retryCount, viewRequest,
                   viewedBlogs, pageLast, toast, patchLog, nonPageVars>>

\* the debounced incrementViewCount runs, up to its await
incrementViewCount ==
    /\ viewTimer # None
    /\ viewTimer.remaining = 0
    /\ viewTimer' = None
    /\ IF \E k \in 1..Len(viewedBlogs) : viewedBlogs[k] = viewTimer.blogId
       THEN UNCHANGED <<viewRequest, patchLog>>
       ELSE /\ viewRequest' = [blogId |-> viewTimer.blogId, viewedBlogs |-> viewedBlogs]
            /\ patchLog' = Append(patchLog, viewTimer.blogId)
    /\ toast' = None
    /\ pageLast' = [name |-> "incrementViewCount"]
    /\ UNCHANGED <<blog, pageLoading, pageError, retryCount, fetching,
                   viewedBlogs, nonPageVars>>

\* incrementViewCount from its await on: the PATCH is answered
incrementViewCountResumes(outcome) ==
    /\ viewRequest # None
    /\ viewRequest' = None
    /\ IF Accepted(outcome)
       THEN /\ blog' = IF blog # None
                       THEN [readCount |-> outcome.readCount] @@ blog
                       ELSE blog
            /\ viewedBlogs' = Append(viewRequest.viewedBlogs, viewRequest.blogId)
       ELSE UNCHANGED <<blog, viewedBlogs>>
    /\ toast' = None
    /\ pageLast' = [name |-> "viewResponse", outcome |-> outcome, before |-> viewedBlogs]
    /\ UNCHANGED <<pageLoading, pageError, retryCount, fetching, viewTimer, patchLog, nonPageVars>>

PageNext ==
    \/ \E o \in BlogOutcomes : fetchBlogResumes(o)
    \/ abortTimeout
    \/ TryAgain
    \/ PageTick
    \/ incrementViewCount
    \/ \E o \in ViewOutcomes : incrementViewCountResumes(o)

\* BlogDetailPage after its first render: the effect has started the fetch.
\* The session may have counted a view of the blog already.
PageInit ==
    /\ blog = None
    /\ pageLoading = TRUE
    /\ pageError = NULL
    /\ retryCount = 0
    /\ fetching = [elapsed |-> 0, retryCount |-> 0]
    /\ viewTimer = None
    /\ viewRequest = None
    /\ viewedBlogs \in { <<>>, <<TheBlog._id>> }
    /\ patchLog = <<>>
    /\ pageLast = [name |-> "mount"]
    /\ NoToast
    /\ TreeIdle
    /\ SearchMounted
    /\ NetIdle
    /\ HeapIdle
    /\ RestIdle

PageSpec == PageInit /\ [][PageNext]_vars

PageTypeOK ==
    /\ retryCount \in 0..maxRetries
    /\ pageLoading \in BOOLEAN
    /\ pageError \in {NULL, TimeoutMessage, LoadFailedMessage}
    /\ fetching # None => fetching.elapsed \in 0..AbortMs
    /\ viewTimer # None => viewTimer.remaining \in 0..ViewDebounceMs

(***************************************************************************)
(* CommentList and CommentInput: the requests behind submit, like, edit    *)
(* and delete.                                                             *)
(*                                                                         *)
(* Each handler is two steps: the click, up to the await of its fetch,     *)
(* and the continuation that runs when the fetch is answered.  A call      *)
(* waiting for its answer is a record [op, ...] holding what the           *)
(* handler's closure captured.  An answer is a body [ok, success,          *)
(* message, ...] (ok: the status is 2xx) or a rejection (network failure,  *)
(* or a body that is not JSON).                                            *)
(***************************************************************************)
AuthorUser == [_id |-> "u1", role |-> "user"]
AdminUser == [_id |-> "u9", role |-> "admin"]

\* localStorage token and auth context user when the page is shown: nobody
\* logged in, the author of comment 1 or an admin logged in, and the
\* author of comment 1 whose token was removed by the session-invalid
\* branch of handleSubmit on an earlier visit
Sessions ==
    { [token |-> FALSE, user |-> None],
      [token |-> TRUE, user |-> AuthorUser],
      [token |-> TRUE, user |-> AdminUser],
      [token |-> FALSE, user |-> AuthorUser] }

\* the forest fetchComments delivered
NetForest == << WithReplies(Leaf("1", NULL), << Leaf("2", "1") >>) >>

\* texts typed into the comment input, and the texts it holds after emoji clicks
CommentTexts == { <<>>, <<"h">> }
InputTexts == CommentTexts \cup { <<"e">> }

Undefined == [kind |-> "undefined"]

ErrorToast(m) == [kind |-> "error", message |-> m]
SuccessToast(m) == [kind |-> "success", message |-> m]

\* answers that do not report success; messages are the data.message values
ServerFailures(messages) ==
    { [kind |-> "body", ok |-> TRUE, success |-> FALSE, message |-> NULL] }
    \cup { [kind |-> "body", ok |-> FALSE, success |-> FALSE, message |-> m] :
              m \in messages \cup {NULL} }
    \cup { [kind |-> "rejected"] }

LikeOutcomes ==
    { [kind |-> "body", ok |-> TRUE, success |-> TRUE, message |-> NULL, likes |-> l] :
          l \in LikesLists }
    \cup ServerFailures({})
EditOutcomes ==
    { [kind |-> "body", ok |-> TRUE, success |-> TRUE, message |-> NULL] }
    \cup ServerFailures({})
DeleteOutcomes ==
    { [kind |-> "body", ok |-> TRUE, success |-> TRUE, message |-> NULL] }
    \cup ServerFailures({"Unauthorized"})
SubmitOutcomes(call) ==
    { [kind |-> "body", ok |-> TRUE, success |-> TRUE, message |-> NULL, data |-> c] :
          c \in NewComments(call.parentCommentId) }
    \cup ServerFailures({"Invalid token"})

Rejected(outcome) == outcome.kind = "rejected"

\* err.message in the catch block: data.message || fallback, or the message of
\* the error fetch or response.json() raised
ErrorMessage(outcome, fallback) ==
    IF Rejected(outcome) THEN "Failed to fetch"
    ELSE IF Truthy(outcome.message) THEN outcome.message
    ELSE fallback

\* String.prototype.includes on the messages of the model, none of which
\* contains `part` without being equal to it
Includes(message, part) == message = part

\* the ids of the comments rendered
ShownIds == IF route = "blog" THEN AllIds(comments) ELSE {}
Shown(id) == id \in ShownIds
CommentOf(id) == NodeAt(comments, FirstPathOf(comments, id))

canEditOrDelete(comment) ==
    /\ user # None
    /\ comment.user._id = user._id \/ user.role = "admin"

\* a step of the user interface that sends nothing
UiStep ==
    /\ lastOp' = [name |-> "ui"]
    /\ prevComments' = comments
    /\ toast' = None

\* onChange of the comment textarea
TypeComment(text) ==
    /\ route = "blog"
    /\ ~inputLoading /\ token
    /\ text # commentText
    /\ commentText' = SubSeq(text, 1, IF Len(text) < maxLength THEN Len(text) ELSE maxLength)
    /\ UiStep
    /\ UNCHANGED <<comments, replyingTo, token, user, inputLoading, editingComment,
                   editContent, calls, nCalls, route, likeLog, nonNetVars>>

\* a click in the emoji picker, while the text stays among `texts`
EmojiClick(texts) ==
    /\ route = "blog"
    /\ commentText \o <<"e">> \in texts
    /\ commentText' = commentText \o <<"e">>
    /\ UiStep
    /\ UNCHANGED <<comments, replyingTo, token, user, inputLoading, editingComment,
                   editContent, calls, nCalls, route, likeLog, nonNetVars>>

handleEmojiClick == EmojiClick(InputTexts)

\* Edit button of a comment
ClickEdit(commentId) ==
    /\ Shown(commentId)
    /\ canEditOrDelete(CommentOf(commentId))
    /\ editingComment' = commentId
    /\ editContent' = CommentOf(commentId).text
    /\ replyingTo' = NULL
    /\ UiStep
    /\ UNCHANGED <<comments, token, user, commentText, inputLoading,
                   calls, nCalls, route, likeLog, nonNetVars>>

\* onChange of the edit textarea
TypeEdit(text) ==
    /\ Shown(editingComment)
    /\ text # editContent
    /\ editContent' = text
    /\ UiStep
    /\ UNCHANGED <<comments, replyingTo, token, user, commentText, inputLoading,
                   editingComment, calls, nCalls, route, likeLog, nonNetVars>>

\* Cancel button of the edit form
CancelEdit ==
    /\ Shown(editingComment)
    /\ editingComment' = NULL
    /\ UiStep
    /\ UNCHANGED <<comments, replyingTo, token, user, commentText, inputLoading,
                   editContent, calls, nCalls, route, likeLog, nonNetVars>>

\* the call is sent: it waits for its answer
Send(call) ==
    /\ nCalls < MaxCalls
    /\ call \notin calls
    /\ calls' = calls \cup {call}
    /\ nCalls' = nCalls + 1
    /\ toast' = None

\* the handler stops before its fetch, with an error toast
Refuse(message) ==
    /\ toast' = ErrorToast(message)
    /\ UNCHANGED <<calls, nCalls>>

\* variant: the like is sent without a look at the token
handleLike_noTokenCheck(commentId) ==
    /\ Shown(commentId)
    /\ Send([op |-> "like", id |-> commentId])
    /\ lastOp' = [name |-> "click", op |-> "like", token |-> token, nCalls |-> nCalls]
    /\ prevComments' = comments
    /\ UNCHANGED <<comments, replyingTo, token, user, commentText, inputLoading,
                   editingComment, editContent, route, likeLog, nonNetVars>>

\* handleLike up to its await
handleLike(commentId) ==
    /\ Shown(commentId)
    /\ IF ~token
       THEN Refuse("Please log in to like a comment")
       ELSE Send([op |-> "like", id |-> commentId])
    /\ lastOp' = [name |-> "click", op |-> "like", token |-> token, nCalls |-> nCalls]
    /\ prevComments' = comments
    /\ UNCHANGED <<comments, replyingTo, token, user, commentText, inputLoading,
                   editingComment, editContent, route, likeLog, nonNetVars>>

\* handleEdit (Save button of the edit form) up to its await
handleEdit(commentId) ==
    /\ Shown(commentId)
    /\ editingComment = commentId
    /\ IF ~token
       THEN Refuse("Please log in to edit a comment")
       ELSE Send([op |-> "edit", id |-> commentId, editContent |-> editContent])
    /\ lastOp' = [name |-> "click", op |-> "edit", token |-> token, nCalls |-> nCalls]
    /\ prevComments' = comments
    /\ UNCHANGED <<comments, replyingTo, token, user, commentText, inputLoading,
                   editingComment, editContent, route, likeLog, nonNetVars>>

\* handleDelete up to its await
handleDelete(commentId) ==
    /\ Shown(commentId)
    /\ canEditOrDelete(CommentOf(commentId))
    /\ IF ~token
       THEN Refuse("Please log in to delete a comment")
       ELSE Send([op |-> "delete", id |-> commentId])
    /\ lastOp' = [name |-> "click", op |-> "delete", token |-> token, nCalls |-> nCalls]
    /\ prevComments' = comments
    /\ UNCHANGED <<comments, replyingTo, token, user, commentText, inputLoading,
                   editingComment, editContent, route, likeLog, nonNetVars>>

\* handleSubmit of the top-level CommentInput (its button is disabled while
\* loading and for a blank text) up to its await
handleSubmit ==
    /\ route = "blog"
    /\ ~inputLoading
    /\ trim(commentText) # <<>>
    /\ IF ~token \/ user = None
       THEN /\ Refuse("Please log in to comment")
            /\ route' = "/auth"
            /\ UNCHANGED inputLoading
       ELSE /\ Send([op |-> "submit", text |-> trim(commentText),
                     parentCommentId |-> NULL, replyingTo |-> replyingTo])
            /\ inputLoading' = TRUE
            /\ UNCHANGED route
    /\ lastOp' = [name |-> "click", op |-> "submit", token |-> token, nCalls |-> nCalls]
    /\ prevComments' = comments
    /\ UNCHANGED <<comments, replyingTo, token, user, commentText,
                   editingComment, editContent, likeLog, nonNetVars>>

\* the step of a continuation: the call leaves the set of waiting calls
Answer(call, op, outcome) ==
    /\ route = "blog"
    /\ call \in calls
    /\ call.op = op
    /\ calls' = calls \ {call}
    /\ lastOp' = [name |-> "response", call |-> call, outcome |-> outcome]
    /\ prevComments' = comments

\* variant: the likes are not stored while another call waits for its answer
handleLikeResumes_skipsWhenOverlapping(call, outcome) ==
    /\ Answer(call, "like", outcome)
    /\ IF ~Rejected(outcome) /\ outcome.ok /\ outcome.success
       THEN /\ comments' = IF calls = {call}
                           THEN updateCommentLikes(comments, call.id, outcome.likes)
                           ELSE comments
            /\ likeLog' = (call.id :> [likes |-> outcome.likes, waiting |-> calls \ {call}])
                              @@ likeLog
            /\ toast' = SuccessToast(IF Truthy(outcome.message) THEN outcome.message
                                     ELSE "Comment liked!")
       ELSE /\ toast' = ErrorToast(ErrorMessage(outcome, "Failed to like comment"))
            /\ UNCHANGED <<comments, likeLog>>
    /\ UNCHANGED <<replyingTo, token, user, commentText, inputLoading, editingComment,
                   editContent, nCalls, route, nonNetVars>>

\* variant: the likes are stored before the answer is looked at
handleLikeResumes_storesAnyAnswer(call, outcome) ==
    /\ Answer(call, "like", outcome)
    /\ comments' = updateCommentLikes(comments, call.id,
                       IF ~Rejected(outcome) /\ outcome.ok /\ outcome.success
                       THEN outcome.likes ELSE <<"u9">>)
    /\ IF ~Rejected(outcome) /\ outcome.ok /\ outcome.success
       THEN /\ likeLog' = (call.id :> [likes |-> outcome.likes, waiting |-> calls \ {call}])
                              @@ likeLog
            /\ toast' = SuccessToast(IF Truthy(outcome.message) THEN outcome.message
                                     ELSE "Comment liked!")
       ELSE /\ toast' = ErrorToast(ErrorMessage(outcome, "Failed to like comment"))
            /\ UNCHANGED likeLog
    /\ UNCHANGED <<replyingTo, token, user, commentText, inputLoading, editingComment,
                   editContent, nCalls, route, nonNetVars>>

\* handleLike from its await on
handleLikeResumes(call, outcome) ==
    /\ Answer(call, "like", outcome)
    /\ IF ~Rejected(outcome) /\ outcome.ok /\ outcome.success
       THEN /\ comments' = updateCommentLikes(comments, call.id, outcome.likes)
            /\ likeLog' = (call.id :> [likes |-> outcome.likes, waiting |-> calls \ {call}])
                              @@ likeLog
            /\ toast' = SuccessToast(IF Truthy(outcome.message) THEN outcome.message
                                     ELSE "Comment liked!")
       ELSE /\ toast' = ErrorToast(ErrorMessage(outcome, "Failed to like comment"))
            /\ UNCHANGED <<comments, likeLog>>
    /\ UNCHANGED <<replyingTo, token, user, commentText, inputLoading, editingComment,
                   editContent, nCalls, route, nonNetVars>>

\* handleEdit from its await on
handleEditResumes(call, outcome, now) ==
    /\ Answer(call, "edit", outcome)
    /\ IF ~Rejected(outcome) /\ outcome.ok /\ outcome.success
       THEN /\ comments' = updateComment(comments, call.id,
                              [text |-> call.editContent, edited |-> TRUE, editedAt |-> now])
            /\ editingComment' = NULL
            /\ editContent' = ""
            /\ toast' = SuccessToast("Comment updated!")
       ELSE /\ toast' = ErrorToast(ErrorMessage(outcome, "Failed to update comment"))
            /\ UNCHANGED <<comments, editingComment, editContent>>
    /\ UNCHANGED <<replyingTo, token, user, commentText, inputLoading,
                   nCalls, route, likeLog, nonNetVars>>

\* handleDelete from its await on
handleDeleteResumes(call, outcome) ==
    /\ Answer(call, "delete", outcome)
    /\ IF ~Rejected(outcome) /\ outcome.ok
       THEN /\ comments' = removeNode(comments, call.id)
            /\ toast' = SuccessToast("Comment deleted successfully")
       ELSE /\ toast' = LET errorMessage == ErrorMessage(outcome, "Failed to delete comment") IN
                        IF Includes(errorMessage, "Unauthorized")
                        THEN ErrorToast("You are not authorized to delete this comment")
                        ELSE ErrorToast(errorMessage)
            /\ UNCHANGED comments
    /\ UNCHANGED <<replyingTo, token, user, commentText, inputLoading, editingComment,
                   editContent, nCalls, route, likeLog, nonNetVars>>

\* variant: loading is cleared on success only
handleSubmitResumes_noFinally(call, outcome) ==
    /\ Answer(call, "submit", outcome)
    /\ IF ~Rejected(outcome) /\ outcome.ok
       THEN LET newComment == IF "data" \in DOMAIN outcome THEN outcome.data ELSE Undefined IN
            /\ toast' = SuccessToast("Comment submitted!")
            /\ commentText' = IF Truthy(call.parentCommentId) THEN commentText ELSE <<>>
            /\ comments' = IF ~Truthy(call.replyingTo)
                           THEN comments \o <<newComment>>
                           ELSE addReplyToComment(comments, call.replyingTo, newComment)
            /\ replyingTo' = NULL
            /\ route' = IF newComment = Undefined THEN "crashed" ELSE route
            /\ inputLoading' = IF Truthy(call.parentCommentId) THEN inputLoading ELSE FALSE
            /\ UNCHANGED token
       ELSE /\ toast' = ErrorToast(ErrorMessage(outcome, "Failed to submit comment"))
            /\ UNCHANGED <<comments, replyingTo, commentText, token, route, inputLoading>>
    /\ UNCHANGED <<user, editingComment, editContent, nCalls, likeLog, nonNetVars>>

\* handleSubmit from its await on, with the handleReplySubmit it calls.  A
\* body without data gives handleReplySubmit undefined; the next render of
\* the list reads a property of it and throws.  setCommentText and setLoading
\* are those of the input that sent the call: commentText and inputLoading
\* are the state of the top-level input, the state of a reply input is not
\* kept.
handleSubmitResumes(call, outcome) ==
    /\ Answer(call, "submit", outcome)
    /\ IF ~Rejected(outcome) /\ outcome.ok
       THEN LET newComment == IF "data" \in DOMAIN outcome THEN outcome.data ELSE Undefined IN
            /\ toast' = SuccessToast(IF Truthy(call.parentCommentId)
                                     THEN "Reply submitted!" ELSE "Comment submitted!")
            /\ commentText' = IF Truthy(call.parentCommentId) THEN commentText ELSE <<>>
            /\ comments' = IF ~Truthy(call.replyingTo)
                           THEN comments \o <<newComment>>
                           ELSE addReplyToComment(comments, call.replyingTo, newComment)
            /\ replyingTo' = NULL
            /\ route' = IF newComment = Undefined THEN "crashed" ELSE route
            /\ UNCHANGED token
       ELSE LET errorMessage == ErrorMessage(outcome, "Failed to submit comment") IN
            /\ IF \/ Includes(errorMessage, "Invalid token")
                  \/ Includes(errorMessage, "Token expired")
               THEN /\ token' = FALSE
                    /\ route' = "/auth"
                    /\ toast' = ErrorToast("Session invalid, please log in again")
               ELSE /\ toast' = ErrorToast(errorMessage)
                    /\ UNCHANGED <<token, route>>
            /\ UNCHANGED <<comments, replyingTo, commentText>>
    /\ inputLoading' = IF Truthy(call.parentCommentId) THEN inputLoading ELSE FALSE
    /\ UNCHANGED <<user, editingComment, editContent, nCalls, likeLog, nonNetVars>>

\* handleSubmit of the reply input shown under the comment replyingTo names,
\* up to its await, with a text typed into it; the input is not loading
\* when none of its calls waits
handleSubmitOfReply ==
    /\ Shown(replyingTo)
    /\ \A c \in calls : c.op = "submit" => c.parentCommentId # replyingTo
    /\ IF ~token \/ user = None
       THEN /\ Refuse("Please log in to comment")
            /\ route' = "/auth"
       ELSE /\ Send([op |-> "submit", text |-> <<"h">>,
                     parentCommentId |-> replyingTo, replyingTo |-> replyingTo])
            /\ UNCHANGED route
    /\ lastOp' = [name |-> "click", op |-> "submit", token |-> token, nCalls |-> nCalls]
    /\ prevComments' = comments
    /\ UNCHANGED <<comments, replyingTo, token, user, commentText, inputLoading,
                   editingComment, editContent, likeLog, nonNetVars>>

NetNext ==
    \/ \E text \in CommentTexts : TypeComment(text)
    \/ handleEmojiClick
    \/ \E id \in ShownIds : ClickEdit(id)
    \/ \E text \in EditTexts : TypeEdit(text)
    \/ CancelEdit
    \/ \E id \in ShownIds : handleLike(id)
    \/ \E id \in ShownIds : handleEdit(id)
    \/ \E id \in ShownIds : handleDelete(id)
    \/ handleSubmit
    \/ \E c \in calls : \E o \in LikeOutcomes : handleLikeResumes(c, o)
    \/ \E c \in calls : \E o \in EditOutcomes, now \in EditStamps : handleEditResumes(c, o, now)
    \/ \E c \in calls : \E o \in DeleteOutcomes : handleDeleteResumes(c, o)
    \/ \E c \in { d \in calls : d.op = "submit" } :
          \E o \in SubmitOutcomes(c) : handleSubmitResumes(c, o)

\* the page after fetchComments delivered the forest
NetInit ==
    /\ comments = NetForest
    /\ replyingTo = NULL
    /\ prevComments = comments
    /\ lastOp = [name |-> "fetch"]
    /\ insertBase = NoBase
    /\ nOps = 0
    /\ \E s \in Sessions : token = s.token /\ user = s.user
    /\ commentText = <<>>
    /\ inputLoading = FALSE
    /\ editingComment = NULL
    /\ editContent = ""
    /\ calls = {}
    /\ nCalls = 0
    /\ route = "blog"
    /\ likeLog = <<>>
    /\ NoToast
    /\ SearchMounted
    /\ PageIdle
    /\ HeapIdle
    /\ RestIdle

NetSpec == NetInit /\ [][NetNext]_vars

\* the comment inputs of the list: Reply and Cancel, the top-level input and
\* the reply input, and the answers to their requests
ReplyNext ==
    \/ \E id \in ShownIds : ClickReply(id)
    \/ route = "blog" /\ CancelReply
    \/ \E text \in CommentTexts : TypeComment(text)
    \/ handleSubmit
    \/ handleSubmitOfReply
    \/ \E c \in { d \in calls : d.op = "submit" /\ route = "blog" } :
          \E o \in SubmitOutcomes(c) : handleSubmitResumes(c, o)

\* the page after fetchComments delivered the forest, its author logged in
ReplyInit ==
    /\ NetInit
    /\ token
    /\ user = AuthorUser

ReplySpec == ReplyInit /\ [][ReplyNext]_vars

NetTypeOK ==
    /\ token \in BOOLEAN
    /\ inputLoading \in BOOLEAN
    /\ nCalls \in 0..MaxCalls
    /\ route \in {"blog", "/auth", "crashed"}
    /\ editingComment \in AllKnownIds \cup {NULL}
    /\ commentText \in InputTexts
    /\ \A c \in calls : c.op \in {"like", "edit", "delete", "submit"}

(***************************************************************************)
(* The tree functions on objects and arrays.                               *)
(*                                                                         *)
(* JavaScript objects and arrays are cells of a heap and are referred to   *)
(* by address.  A comment cell is the comment's record with the address of *)
(* its replies array in `replies`; an array cell is [items |-> addresses]. *)
(* Array.map, Array.filter, an array literal and an object literal         *)
(* allocate a new cell; `return comment` hands back the address it got.    *)
(* The functions below are the tree functions written over such a heap;    *)
(* each returns the new heap and the address of its result.                *)
(***************************************************************************)
Alloc(h, cell) == [heap |-> Append(h, cell), ref |-> Len(h) + 1]

\* the cells of a forest as JSON parsing allocates them
RECURSIVE StoreComment(_, _), StoreItems(_, _, _), StoreForest(_, _)
StoreComment(h, c) ==
    IF HasReplies(c)
    THEN LET r == StoreForest(h, c.replies) IN Alloc(r.heap, [replies |-> r.ref] @@ c)
    ELSE Alloc(h, c)
StoreItems(h, forest, refs) ==
    IF forest = <<>> THEN [heap |-> h, refs |-> refs]
    ELSE LET r == StoreComment(h, Head(forest)) IN
         StoreItems(r.heap, Tail(forest), Append(refs, r.ref))
StoreForest(h, forest) ==
    LET r == StoreItems(h, forest, <<>>) IN Alloc(r.heap, [items |-> r.refs])

\* the forest an array address stands for
RECURSIVE ForestOf(_, _)
ForestOf(h, arr) ==
    [k \in 1..Len(h[arr].items) |->
        LET comment == h[h[arr].items[k]] IN
        IF HasReplies(comment)
        THEN [replies |-> ForestOf(h, comment.replies)] @@ comment
        ELSE comment]

\* updateComment: comments.map(...), from item k on; out holds the results so far
RECURSIVE updateCommentOnHeap(_, _, _, _), updateCommentFrom(_, _, _, _, _, _)
updateCommentFrom(h, items, k, out, commentId, updates) ==
    IF k > Len(items) THEN Alloc(h, [items |-> out])
    ELSE LET comment == h[items[k]] IN
         IF comment._id = commentId
         THEN LET r == Alloc(h, updates @@ comment) IN
              updateCommentFrom(r.heap, items, k + 1, Append(out, r.ref), commentId, updates)
         ELSE IF HasReplies(comment)
         THEN LET sub == updateCommentOnHeap(h, comment.replies, commentId, updates)
                  r == Alloc(sub.heap, [replies |-> sub.ref] @@ comment)
              IN updateCommentFrom(r.heap, items, k + 1, Append(out, r.ref), commentId, updates)
         ELSE updateCommentFrom(h, items, k + 1, Append(out, items[k]), commentId, updates)
updateCommentOnHeap(h, arr, commentId, updates) ==
    updateCommentFrom(h, h[arr].items, 1, <<>>, commentId, updates)

\* variant: the whole forest is copied, as a JSON round trip does
updateCommentLikesOnHeap_copiesAll(h, arr, commentId, newLikes) ==
    StoreForest(h, updateCommentLikes(ForestOf(h, arr), commentId, newLikes))

\* updateCommentLikes
RECURSIVE updateCommentLikesOnHeap(_, _, _, _), updateCommentLikesFrom(_, _, _, _, _, _)
updateCommentLikesFrom(h, items, k, out, commentId, newLikes) ==
    IF k > Len(items) THEN Alloc(h, [items |-> out])
    ELSE LET comment == h[items[k]] IN
         IF comment._id = commentId
         THEN LET r == Alloc(h, [likes |-> newLikes] @@ comment) IN
              updateCommentLikesFrom(r.heap, items, k + 1, Append(out, r.ref), commentId, newLikes)
         ELSE IF HasReplies(comment)
         THEN LET sub == updateCommentLikesOnHeap(h, comment.replies, commentId, newLikes)
                  r == Alloc(sub.heap, [replies |-> sub.ref] @@ comment)
              IN updateCommentLikesFrom(r.heap, items, k + 1, Append(out, r.ref), commentId, newLikes)
         ELSE updateCommentLikesFrom(h, items, k + 1, Append(out, items[k]), commentId, newLikes)
updateCommentLikesOnHeap(h, arr, commentId, newLikes) ==
    updateCommentLikesFrom(h, h[arr].items, 1, <<>>, commentId, newLikes)

\* addReplyToComment; newRef is the address of the new comment
RECURSIVE addReplyToCommentOnHeap(_, _, _, _), addReplyToCommentFrom(_, _, _, _, _, _)
addReplyToCommentFrom(h, items, k, out, parentId, newRef) ==
    IF k > Len(items) THEN Alloc(h, [items |-> out])
    ELSE LET comment == h[items[k]] IN
         IF comment._id = parentId
         THEN LET a == Alloc(h, [items |-> IF HasReplies(comment)
                                           THEN Append(h[comment.replies].items, newRef)
                                           ELSE <<newRef>>])
                  r == Alloc(a.heap, [replies |-> a.ref] @@ comment)
              IN addReplyToCommentFrom(r.heap, items, k + 1, Append(out, r.ref), parentId, newRef)
         ELSE IF HasReplies(comment)
         THEN LET sub == addReplyToCommentOnHeap(h, comment.replies, parentId, newRef)
                  r == Alloc(sub.heap, [replies |-> sub.ref] @@ comment)
              IN addReplyToCommentFrom(r.heap, items, k + 1, Append(out, r.ref), parentId, newRef)
         ELSE addReplyToCommentFrom(h, items, k + 1, Append(out, items[k]), parentId, newRef)
addReplyToCommentOnHeap(h, arr, parentId, newRef) ==
    addReplyToCommentFrom(h, h[arr].items, 1, <<>>, parentId, newRef)

\* the test of handleDelete's filter on the comment at address a
KeptByDelete(h, a, commentId) ==
    /\ h[a]._id # commentId
    /\ ~(/\ HasReplies(h[a])
         /\ \E j \in 1..Len(h[h[a].replies].items) :
               h[h[h[a].replies].items[j]]._id = commentId)

\* variant: the array is spliced in place
removeNodeOnHeap_splices(h, arr, commentId) ==
    [heap |-> [h EXCEPT ![arr] =
                  [items |-> SelectSeq(h[arr].items,
                                       LAMBDA a : KeptByDelete(h, a, commentId))]],
     ref |-> arr]

\* the updater of handleDelete: prevComments.filter(...)
removeNodeOnHeap(h, arr, commentId) ==
    Alloc(h, [items |-> SelectSeq(h[arr].items, LAMBDA a : KeptByDelete(h, a, commentId))])

\* setComments with the result r of an updater
Stored(r) ==
    /\ nOps < MaxOps
    /\ nOps' = nOps + 1
    /\ heap' = r.heap
    /\ root' = r.ref
    /\ prevHeap' = heap
    /\ prevRoot' = root
    /\ prevComments' = comments
    /\ UNCHANGED nonHeapVars

\* the updater of handleLike
LikeOnHeap(commentId, newLikes) ==
    /\ Stored(updateCommentLikesOnHeap(heap, root, commentId, newLikes))
    /\ comments' = updateCommentLikes(comments, commentId, newLikes)
    /\ lastOp' = [name |-> "like", id |-> commentId, likes |-> newLikes]

\* the updater of handleEdit
EditOnHeap(commentId, newText, now) ==
    LET updates == [text |-> newText, edited |-> TRUE, editedAt |-> now] IN
    /\ Stored(updateCommentOnHeap(heap, root, commentId, updates))
    /\ comments' = updateComment(comments, commentId, updates)
    /\ lastOp' = [name |-> "edit", id |-> commentId, updates |-> updates]

\* the updater of handleDelete
DeleteOnHeap(commentId) ==
    /\ Stored(removeNodeOnHeap(heap, root, commentId))
    /\ comments' = removeNode(comments, commentId)
    /\ lastOp' = [name |-> "delete", id |-> commentId]

\* the updaters of handleReplySubmit, for a new comment parsed from the
\* response; parentId is the replyingTo of the render that made the handler
SubmitOnHeap(parentId, newComment) ==
    LET new == Alloc(heap, newComment) IN
    /\ IF ~Truthy(parentId)
       THEN /\ Stored(Alloc(new.heap, [items |-> Append(heap[root].items, new.ref)]))
            /\ comments' = comments \o <<newComment>>
       ELSE /\ Stored(addReplyToCommentOnHeap(new.heap, root, parentId, new.ref))
            /\ comments' = addReplyToComment(comments, parentId, newComment)
    /\ lastOp' = [name |-> "submit", parentId |-> parentId, node |-> newComment]

HeapNext ==
    \/ \E id \in TargetIds, l \in LikesLists : LikeOnHeap(id, l)
    \/ \E id \in TargetIds, t \in EditTexts, n \in EditStamps : EditOnHeap(id, t, n)
    \/ \E id \in TargetIds : DeleteOnHeap(id)
    \/ \E p \in AllIds(comments) \cup {NULL} : \E c \in NewComments(p) : SubmitOnHeap(p, c)

\* a forest delivered by the server, parsed into objects and arrays
HeapInit ==
    /\ comments \in ServerForests
    /\ replyingTo = NULL
    /\ prevComments = comments
    /\ lastOp = [name |-> "fetch"]
    /\ insertBase = NoBase
    /\ nOps = 0
    /\ LET r == StoreForest(<<>>, comments) IN
       /\ heap = r.heap
       /\ root = r.ref
       /\ prevHeap = r.heap
       /\ prevRoot = r.ref
    /\ SearchMounted
    /\ PageIdle
    /\ NoToast
    /\ NetIdle
    /\ RestIdle

HeapSpec == HeapInit /\ [][HeapNext]_vars

\* the objects and arrays stand for the forest the functions compute on values
HeapTypeOK ==
    /\ root \in 1..Len(heap)
    /\ prevRoot \in 1..Len(prevHeap)
    /\ ForestOf(heap, root) = comments
    /\ ForestOf(prevHeap, prevRoot) = prevComments

(***************************************************************************)
(* HomePage: the lists it shows.                                           *)
(*                                                                         *)
(* Titles, contents and the search query are sequences of characters.      *)
(* Array.prototype.sort is stable and sorts the array it is called on.     *)
(***************************************************************************)
\* the number NaN: a value no arithmetic of the model yields for a slide
\* index, which is never negative
NaN == -1

BlogObject(id, title, content, category, createdAt, commentCount, readCount) ==
    [_id |-> id, title |-> title, content |-> content, category |-> category,
     createdAt |-> createdAt, commentCount |-> commentCount, readCount |-> readCount]

\* the blogs of the server
AllBlogs ==
    { BlogObject("p1", <<"a">>, <<"A", "b">>, "x", "2024-01-01", 0, 5),
      BlogObject("p2", <<"c">>, <<"b">>, "y", "2024-01-02", 2, 9),
      BlogObject("p3", <<"b">>, <<"c">>, "x", "2024-01-03", 1, 5),
      BlogObject("p4", <<"d">>, <<"a">>, "y", "2024-01-04", 0, 1) }

\* the arrays GET /blogs/getAll can deliver: no blog twice
BlogLists ==
    { l \in UNION { [1..n -> AllBlogs] : n \in 0..MaxBlogs } :
        \A i, j \in 1..Len(l) : l[i] = l[j] => i = j }

Categories == {"All", "x", "y"}
SortKeys == {"date-desc", "date-asc", "title", "popularity"}
HomeQueries == { <<>>, <<"a">> }

\* new Date(createdAt).getTime(), in days since 2024-01-01
getTime(createdAt) ==
    CASE createdAt = "2024-01-01" -> 0
      [] createdAt = "2024-01-02" -> 1
      [] createdAt = "2024-01-03" -> 2
      [] createdAt = "2024-01-04" -> 3

\* String.prototype.toLowerCase
LowerChar(ch) == IF ch = "A" THEN "a" ELSE ch
toLowerCase(str) == [k \in 1..Len(str) |-> LowerChar(str[k])]

\* String.prototype.includes
StringIncludes(str, part) ==
    \E k \in 1..(Len(str) - Len(part) + 1) : SubSeq(str, k, k + Len(part) - 1) = part

\* position of a lower-case letter in the alphabet
Alphabet == <<"a", "b", "c", "d", "e", "h">>
LetterRank(ch) == CHOOSE k \in 1..Len(Alphabet) : Alphabet[k] = ch

\* a.localeCompare(b) for strings of lower-case letters: negative, 0 or positive
RECURSIVE localeCompare(_, _)
localeCompare(a, b) ==
    IF a = <<>> THEN (IF b = <<>> THEN 0 ELSE -1)
    ELSE IF b = <<>> THEN 1
    ELSE IF a[1] # b[1] THEN LetterRank(a[1]) - LetterRank(b[1])
    ELSE localeCompare(Tail(a), Tail(b))

\* the compare functions handed to sort
Compare(key, a, b) ==
    CASE key = "comments"   -> b.commentCount - a.commentCount
      [] key = "date-desc"  -> getTime(b.createdAt) - getTime(a.createdAt)
      [] key = "date-asc"   -> getTime(a.createdAt) - getTime(b.createdAt)
      [] key = "title"      -> localeCompare(a.title, b.title)
      [] key = "popularity" -> b.readCount - a.readCount

\* array.sort(compare): x goes behind the elements that do not come after it
InsertSorted(sorted, x, key) ==
    LET n == Cardinality({ k \in 1..Len(sorted) : Compare(key, sorted[k], x) <= 0 }) IN
    SubSeq(sorted, 1, n) \o <<x>> \o SubSeq(sorted, n + 1, Len(sorted))

RECURSIVE Sort(_, _)
Sort(array, key) ==
    IF array = <<>> THEN <<>>
    ELSE InsertSorted(Sort(SubSeq(array, 1, Len(array) - 1), key), array[Len(array)], key)

\* the useMemo sortedAndFilteredBlogs, as it returns its array
sortedAndFilteredBlogs(bs, searchQ, category, sortKey) ==
    LET matches(b) ==
            \/ StringIncludes(toLowerCase(b.title), toLowerCase(searchQ))
            \/ StringIncludes(toLowerCase(b.content), toLowerCase(searchQ))
        r1 == IF searchQ # <<>> THEN Sort(SelectSeq(bs, matches), "comments") ELSE bs
        inCategory(b) == b.category = category
        r2 == IF category # "All" THEN SelectSeq(r1, inCategory) ELSE r1
    IN  IF searchQ = <<>> /\ sortKey \in SortKeys THEN Sort(r2, sortKey) ELSE r2

Min(a, b) == IF a < b THEN a ELSE b

\* variant: the slideshow sorts a copy
RenderedLists_sortsCopy(bs, searchQ, category, sortKey) ==
    LET result == sortedAndFilteredBlogs(bs, searchQ, category, sortKey)
        byReads == Sort(result, "popularity")
    IN  [sortedAndFilteredBlogs |-> result,
         slideshowBlogs |-> SubSeq(byReads, 1, Min(slideLimit, Len(byReads)))]

\* the two memoised lists after a render: slideshowBlogs sorts the array of
\* sortedAndFilteredBlogs itself by readCount and takes a slice of it
RenderedLists(bs, searchQ, category, sortKey) ==
    LET result == sortedAndFilteredBlogs(bs, searchQ, category, sortKey)
        byReads == Sort(result, "popularity")
    IN  [sortedAndFilteredBlogs |-> byReads,
         slideshowBlogs |-> SubSeq(byReads, 1, Min(slideLimit, Len(byReads)))]

\* the slideshow list of the current render
slideshowBlogs == RenderedLists(blogs, homeQuery, selectedCategory, sortBy).slideshowBlogs

\* JavaScript's a % n for a number a >= 0 or NaN and a number n >= 0
JsMod(a, n) == IF a = NaN \/ n = 0 THEN NaN ELSE a % n

\* a render with new blogs, query, category or sort key, and the effect
\* behind it: setFilteredBlogs(sortedAndFilteredBlogs)
Rerender(bs, searchQ, category, sortKey) ==
    /\ blogs' = bs
    /\ homeQuery' = searchQ
    /\ selectedCategory' = category
    /\ sortBy' = sortKey
    /\ filteredBlogs' = RenderedLists(bs, searchQ, category, sortKey).sortedAndFilteredBlogs

\* answers to GET /blogs/getAll
BlogsOutcomes(lists) ==
    { [kind |-> "body", ok |-> TRUE, success |-> TRUE, message |-> NULL, blogs |-> l] :
          l \in lists }
    \cup ServerFailures({})

\* fetchBlogs up to its await: the Retry button of the error view
RetryBlogs ==
    /\ ~homeLoading
    /\ homeError # NULL
    /\ homeFetches < MaxFetches
    /\ homeFetches' = homeFetches + 1
    /\ homeLast' = [name |-> "retry"]
    /\ toast' = None
    /\ UNCHANGED <<blogs, filteredBlogs, homeLoading, homeError, homeQuery,
                   selectedCategory, sortBy, currentSlide, nonHomeVars>>

\* fetchBlogs from its await on
fetchBlogsResumes(outcome) ==
    /\ homeFetches > 0
    /\ homeFetches' = homeFetches - 1
    /\ IF ~Rejected(outcome) /\ outcome.ok /\ outcome.success
       THEN /\ Rerender(outcome.blogs, homeQuery, selectedCategory, sortBy)
            /\ toast' = None
            /\ UNCHANGED homeError
       ELSE /\ homeError' = ErrorMessage(outcome, "Error fetching blogs")
            /\ toast' = ErrorToast(ErrorMessage(outcome, "Error fetching blogs"))
            /\ UNCHANGED <<blogs, filteredBlogs, homeQuery, selectedCategory, sortBy>>
    /\ homeLoading' = FALSE
    /\ homeLast' = [name |-> "response", outcome |-> outcome]
    /\ UNCHANGED <<currentSlide, nonHomeVars>>

\* the search box, a category button, the sort select
SetSearchQuery(searchQ) ==
    /\ searchQ # homeQuery
    /\ Rerender(blogs, searchQ, selectedCategory, sortBy)
    /\ homeLast' = [name |-> "search"]
    /\ toast' = None
    /\ UNCHANGED <<homeLoading, homeError, homeFetches, currentSlide, nonHomeVars>>

SetSelectedCategory(category) ==
    /\ category # selectedCategory
    /\ Rerender(blogs, homeQuery, category, sortBy)
    /\ homeLast' = [name |-> "category"]
    /\ toast' = None
    /\ UNCHANGED <<homeLoading, homeError, homeFetches, currentSlide, nonHomeVars>>

SetSortBy(sortKey) ==
    /\ sortKey # sortBy
    /\ Rerender(blogs, homeQuery, selectedCategory, sortKey)
    /\ homeLast' = [name |-> "sort"]
    /\ toast' = None
    /\ UNCHANGED <<homeLoading, homeError, homeFetches, currentSlide, nonHomeVars>>

\* a step that changes currentSlide only
SlideStep(name, slide) ==
    /\ currentSlide' = slide
    /\ homeLast' = [name |-> name, from |-> currentSlide, n |-> Len(slideshowBlogs)]
    /\ toast' = None
    /\ UNCHANGED <<blogs, filteredBlogs, homeLoading, homeError, homeFetches,
                   homeQuery, selectedCategory, sortBy, nonHomeVars>>

\* the interval timer of the slideshow fires; it runs whether or not the
\* slideshow is rendered
SlideTimer ==
    SlideStep("timer",
              JsMod(IF currentSlide = NaN THEN NaN ELSE currentSlide + 1,
                    Min(slideLimit, Len(slideshowBlogs))))

\* the Previous, Next and dot buttons, rendered when the slideshow has blogs
handlePrevSlide ==
    /\ Len(slideshowBlogs) > 0
    /\ SlideStep("prev",
                 IF currentSlide = NaN THEN NaN
                 ELSE IF currentSlide = 0 THEN Min(2, Len(slideshowBlogs) - 1)
                 ELSE currentSlide - 1)

handleNextSlide ==
    /\ Len(slideshowBlogs) > 0
    /\ SlideStep("next",
                 JsMod(IF currentSlide = NaN THEN NaN ELSE currentSlide + 1,
                       Min(slideLimit, Len(slideshowBlogs))))

ClickDot(index) ==
    /\ index \in 0..(Len(slideshowBlogs) - 1)
    /\ index # currentSlide
    /\ SlideStep("dot", index)

\* HomePage after its first render: the mount effect has called fetchBlogs
HomeMounted ==
    /\ blogs = <<>>
    /\ filteredBlogs = <<>>
    /\ homeLoading = TRUE
    /\ homeError = NULL
    /\ homeFetches = 1
    /\ homeQuery = <<>>
    /\ selectedCategory = "All"
    /\ sortBy = "date-desc"
    /\ currentSlide = 0
    /\ homeLast = [name |-> "mount"]

HomeInit ==
    /\ HomeMounted
    /\ ListIdle
    /\ ViewIdle
    /\ TreeIdle
    /\ SearchMounted
    /\ PageIdle
    /\ NoToast
    /\ NetIdle
    /\ HeapIdle
    /\ AuthIdle
    /\ GateIdle

HomeNext ==
    \/ \E o \in BlogsOutcomes(BlogLists) : fetchBlogsResumes(o)
    \/ \E q \in HomeQueries : SetSearchQuery(q)
    \/ \E c \in Categories : SetSelectedCategory(c)
    \/ \E k \in SortKeys : SetSortBy(k)
    \/ SlideTimer
    \/ handlePrevSlide
    \/ handleNextSlide
    \/ \E i \in 0..(slideLimit - 1) : ClickDot(i)

HomeSpec == HomeInit /\ [][HomeNext]_vars

HomeTypeOK ==
    /\ blogs \in BlogLists
    /\ homeLoading \in BOOLEAN
    /\ homeFetches \in 0..MaxFetches
    /\ sortBy \in SortKeys
    /\ selectedCategory \in Categories
    /\ homeQuery \in HomeQueries
    /\ currentSlide \in 0..(slideLimit - 1) \cup {NaN}
    /\ \A k \in 1..Len(filteredBlogs) : \E j \in 1..Len(blogs) : filteredBlogs[k] = blogs[j]

(***************************************************************************)
(* The fetches of the comment list and of the blog list, with Retry.       *)
(***************************************************************************)
\* answers to GET /blogs/:id/comment
CommentsOutcomes ==
    { [kind |-> "body", ok |-> TRUE, success |-> TRUE, message |-> NULL, comments |-> f] :
          f \in { <<>>, NetForest } }
    \cup ServerFailures({})

\* fetchComments up to its await: the Retry button of the error view
RetryComments ==
    /\ ~listLoading
    /\ listError # NULL
    /\ listFetches < MaxFetches
    /\ listFetches' = listFetches + 1
    /\ listLast' = [name |-> "retry"]
    /\ toast' = None
    /\ UNCHANGED <<comments, listLoading, listError, nonListVars>>

\* fetchComments from its await on
fetchCommentsResumes(outcome) ==
    /\ listFetches > 0
    /\ listFetches' = listFetches - 1
    /\ IF ~Rejected(outcome) /\ outcome.ok /\ outcome.success
       THEN /\ comments' = outcome.comments
            /\ toast' = None
            /\ UNCHANGED listError
       ELSE /\ listError' = ErrorMessage(outcome, "Failed to fetch comments")
            /\ toast' = ErrorToast(ErrorMessage(outcome, "Failed to fetch comments"))
            /\ UNCHANGED comments
    /\ listLoading' = FALSE
    /\ listLast' = [name |-> "response", outcome |-> outcome]
    /\ UNCHANGED nonListVars

\* CommentList after its first render: the effect has called fetchComments
ListMounted ==
    /\ listLoading = TRUE
    /\ listError = NULL
    /\ listFetches = 1
    /\ listLast = [name |-> "mount"]

\* a page with the comment list and a page with the blog list, both mounted
FetchInit ==
    /\ ListMounted
    /\ HomeMounted
    /\ ViewIdle
    /\ TreeIdle
    /\ SearchMounted
    /\ PageIdle
    /\ NoToast
    /\ NetIdle
    /\ HeapIdle
    /\ AuthIdle
    /\ GateIdle

\* the blog lists the answers of this specification carry
FetchedLists == { l \in BlogLists : Len(l) <= 1 }

FetchNext ==
    \/ RetryComments
    \/ \E o \in CommentsOutcomes : fetchCommentsResumes(o)
    \/ RetryBlogs
    \/ \E o \in BlogsOutcomes(FetchedLists) : fetchBlogsResumes(o)

FetchSpec == FetchInit /\ [][FetchNext]_vars

FetchTypeOK ==
    /\ listLoading \in BOOLEAN
    /\ listFetches \in 0..MaxFetches
    /\ homeLoading \in BOOLEAN
    /\ homeFetches \in 0..MaxFetches
    /\ blogs \in FetchedLists

(***************************************************************************)
(* CommentInput: the length of the text.  The texts are typed or pasted    *)
(* into the textarea, whose onChange cuts them, and emojis are appended    *)
(* by the picker; an emoji counts as one character here.                   *)
(***************************************************************************)
\* the lengths of the values the textarea's change event carries
TypedLengths == {0, 1, maxLength - 1, maxLength, maxLength + 1}

TypedTexts == { [k \in 1..n |-> "h"] : n \in TypedLengths }

\* String.prototype.slice(0, n)
slice(str, n) == SubSeq(str, 1, IF Len(str) < n THEN Len(str) ELSE n)

\* the texts the input can hold: a typed text as onChange stores it, and
\* the emojis picked behind it
LongInputTexts ==
    { slice(t, maxLength) \o [k \in 1..n |-> "e"] : t \in TypedTexts, n \in 0..MaxEmojis }

LengthNext ==
    \/ \E text \in TypedTexts : TypeComment(text)
    \/ EmojiClick(LongInputTexts)
    \/ handleSubmit
    \/ \E c \in { d \in calls : d.op = "submit" } :
          \E o \in SubmitOutcomes(c) : handleSubmitResumes(c, o)

\* the page with its comment input, the author of comment 1 logged in
LengthInit ==
    /\ NetInit
    /\ token
    /\ user = AuthorUser

LengthSpec == LengthInit /\ [][LengthNext]_vars

LengthTypeOK ==
    /\ commentText \in LongInputTexts
    /\ inputLoading \in BOOLEAN
    /\ \A c \in calls : c.op = "submit" /\ c.text \in LongInputTexts

(***************************************************************************)
(* The session: AuthProvider's user, and the user and token items of       *)
(* localStorage.  AuthProvider wraps the router, so a navigate() keeps its *)
(* state and an assignment to window.location.href creates it anew.        *)
(***************************************************************************)
\* the effect of AuthProvider after its first render
AuthLoad ==
    /\ authLoading
    /\ user' = IF storedUser # None /\ token THEN storedUser ELSE user
    /\ authLoading' = FALSE
    /\ lastOp' = [name |-> "authLoad"]
    /\ prevComments' = comments
    /\ toast' = None
    /\ UNCHANGED <<comments, replyingTo, token, commentText, inputLoading, editingComment,
                   editContent, calls, nCalls, route, likeLog, storedUser, nonAuthVars>>

\* login of the auth context, called on the /auth page
login(u) ==
    /\ ~authLoading
    /\ route = "/auth"
    /\ user' = u
    /\ storedUser' = u
    /\ token' = TRUE
    /\ lastOp' = [name |-> "login", user |-> u]
    /\ prevComments' = comments
    /\ toast' = None
    /\ UNCHANGED <<comments, replyingTo, commentText, inputLoading, editingComment,
                   editContent, calls, nCalls, route, likeLog, authLoading, nonAuthVars>>

\* logout of the auth context
logout ==
    /\ ~authLoading
    /\ user' = None
    /\ storedUser' = None
    /\ token' = FALSE
    /\ lastOp' = [name |-> "logout"]
    /\ prevComments' = comments
    /\ toast' = None
    /\ UNCHANGED <<comments, replyingTo, commentText, inputLoading, editingComment,
                   editContent, calls, nCalls, route, likeLog, authLoading, nonAuthVars>>

\* Log out of the user menu, shown for a user: the items are removed and
\* the application is loaded anew at "/"
handleLogout ==
    /\ ~authLoading
    /\ user # None
    /\ route # "crashed"
    /\ token' = FALSE
    /\ storedUser' = None
    /\ user' = None
    /\ authLoading' = TRUE
    /\ route' = "/"
    /\ comments' = <<>>
    /\ replyingTo' = NULL
    /\ commentText' = <<>>
    /\ inputLoading' = FALSE
    /\ editingComment' = NULL
    /\ editContent' = ""
    /\ calls' = {}
    /\ lastOp' = [name |-> "handleLogout"]
    /\ prevComments' = comments
    /\ toast' = None
    /\ UNCHANGED <<nCalls, likeLog, nonAuthVars>>

\* the user opens /auth, or a blog whose comment list is then fetched
Navigate(to) ==
    /\ ~authLoading
    /\ route \notin {to, "crashed"}
    /\ calls = {}
    /\ route' = to
    /\ comments' = IF to = "blog" THEN NetForest ELSE <<>>
    /\ replyingTo' = NULL
    /\ commentText' = <<>>
    /\ inputLoading' = FALSE
    /\ editingComment' = NULL
    /\ editContent' = ""
    /\ lastOp' = [name |-> "navigate", to |-> to]
    /\ prevComments' = comments
    /\ toast' = None
    /\ UNCHANGED <<token, user, calls, nCalls, likeLog, authVars, nonAuthVars>>

AuthNext ==
    \/ AuthLoad
    \/ \E u \in {AuthorUser, AdminUser} : login(u)
    \/ logout
    \/ handleLogout
    \/ \E to \in {"/auth", "blog"} : Navigate(to)
    \/ ~authLoading /\ \E text \in CommentTexts : TypeComment(text)
    \/ ~authLoading /\ handleSubmit
    \/ \E c \in { d \in calls : d.op = "submit" } :
          \E o \in SubmitOutcomes(c) : handleSubmitResumes(c, o)

\* the application opened at /auth in a browser without a session
AuthInit ==
    /\ storedUser = None
    /\ authLoading = TRUE
    /\ token = FALSE
    /\ user = None
    /\ route = "/auth"
    /\ comments = <<>>
    /\ replyingTo = NULL
    /\ prevComments = comments
    /\ lastOp = [name |-> "load"]
    /\ insertBase = NoBase
    /\ nOps = 0
    /\ commentText = <<>>
    /\ inputLoading = FALSE
    /\ editingComment = NULL
    /\ editContent = ""
    /\ calls = {}
    /\ nCalls = 0
    /\ likeLog = <<>>
    /\ NoToast
    /\ SearchMounted
    /\ PageIdle
    /\ HeapIdle
    /\ ListIdle
    /\ HomeIdle
    /\ ViewIdle
    /\ GateIdle

AuthSpec == AuthInit /\ [][AuthNext]_vars

AuthTypeOK ==
    /\ token \in BOOLEAN
    /\ authLoading \in BOOLEAN
    /\ user \in {None, AuthorUser, AdminUser}
    /\ storedUser \in {None, AuthorUser, AdminUser}
    /\ route \in {"/", "/auth", "blog", "crashed"}
    /\ route # "blog" => calls = {}

(***************************************************************************)
(* ProtectedRoute.  requiredRole is NULL when the prop is not given.       *)
(***************************************************************************)
\* what ProtectedRoute returns: <Navigate to=...> or its children
ProtectedRoute(u, requiredRole) ==
    IF u = None THEN "/auth"
    ELSE IF ~Truthy(requiredRole) /\ u.role # requiredRole THEN "/unAuthorized"
    ELSE "children"

RequiredRoles == {NULL, "user", "admin"}

\* a route wrapped in <ProtectedRoute requiredRole=...> is opened and
\* rendered with the context's user
OpenProtected(requiredRole) ==
    /\ route # "crashed"
    /\ calls = {}
    /\ LET rendered == ProtectedRoute(user, requiredRole) IN
       /\ gate' = [requiredRole |-> requiredRole, user |-> user, rendered |-> rendered]
       /\ route' = IF rendered = "children" THEN "protected" ELSE rendered
    /\ lastOp' = [name |-> "openProtected"]
    /\ prevComments' = comments
    /\ toast' = None
    /\ UNCHANGED nonGateVars

GateNext ==
    \/ AuthLoad
    \/ \E u \in {AuthorUser, AdminUser} : login(u)
    \/ logout
    \/ handleLogout
    \/ \E to \in {"/auth", "blog"} : Navigate(to)
    \/ \E r \in RequiredRoles : OpenProtected(r)

GateSpec == AuthInit /\ [][GateNext]_vars

GateTypeOK ==
    /\ route \in {"/", "/auth", "blog", "protected", "/unAuthorized"}
    /\ gate # None =>
          /\ gate.requiredRole \in RequiredRoles
          /\ gate.user \in {None, AuthorUser, AdminUser}
          /\ gate.rendered \in {"/auth", "/unAuthorized", "children"}

(***************************************************************************)
(* Counting a view: the blog links of HomePage and BlogDetailPage.         *)
(*                                                                         *)
(* A blog link of HomePage is a <Link to={`/blog/${blog.slug}`}> whose     *)
(* onClick is handleBlogView: the click sends the PATCH of HomePage and    *)
(* shows BlogDetailPage, which fetches the blog and counts the view with   *)
(* its own debounced incrementViewCount.  HomePage is unmounted by the     *)
(* click, so the setBlogs and setRecentlyRead of a late answer have no     *)
(* effect; its sessionStorage write has.  The model names a blog's slug by *)
(* its _id.  The debounce timer of BlogDetailPage is not cancelled when    *)
(* the page is left.                                                       *)
(***************************************************************************)
\* the blogs HomePage shows in this specification
ViewedList ==
    << BlogObject("p1", <<"a">>, <<"A", "b">>, "x", "2024-01-01", 0, 5),
       BlogObject("p2", <<"c">>, <<"b">>, "y", "2024-01-02", 2, 9) >>

\* Array.prototype.includes
ArrayIncludes(array, x) == \E k \in 1..Len(array) : array[k] = x

\* handleBlogView up to its await, and the navigation of the <Link>:
\* BlogDetailPage mounts and its effect starts the fetch
handleBlogView(b) ==
    /\ shownPage = "home"
    /\ ~homeLoading
    /\ homeError = NULL
    /\ ArrayIncludes(filteredBlogs, b)
    /\ nVisits < MaxVisits
    /\ viewTimer = None
    /\ viewRequest = None
    /\ nVisits' = nVisits + 1
    /\ IF ArrayIncludes(viewedBlogs, b._id)
       THEN UNCHANGED <<homeViews, patchLog>>
       ELSE /\ homeViews' = homeViews \cup
                  { [blogId |-> b._id, viewedBlogs |-> viewedBlogs, visit |-> nVisits + 1] }
            /\ patchLog' = Append(patchLog, b._id)
    /\ shownPage' = "detail"
    /\ slug' = b._id
    /\ blog' = None
    /\ retryCount' = 0
    /\ StartFetch(None, 0)
    /\ pageLast' = [name |-> "mount"]
    /\ homeLast' = [name |-> "view", blogId |-> b._id]
    /\ toast' = None
    /\ UNCHANGED <<blogs, filteredBlogs, homeLoading, homeError, homeFetches, homeQuery,
                   selectedCategory, sortBy, currentSlide, viewTimer, viewRequest,
                   viewedBlogs, nonViewVars>>

\* handleBlogView from its await on: the PATCH is answered
handleBlogViewResumes(call, outcome) ==
    /\ call \in homeViews
    /\ homeViews' = homeViews \ {call}
    /\ IF Accepted(outcome)
       THEN viewedBlogs' = Append(call.viewedBlogs, call.blogId)
       ELSE UNCHANGED viewedBlogs
    /\ homeLast' = [name |-> "viewResponse", outcome |-> outcome, before |-> viewedBlogs]
    /\ toast' = None
    /\ UNCHANGED <<blogs, filteredBlogs, homeLoading, homeError, homeFetches, homeQuery,
                   selectedCategory, sortBy, currentSlide, blog, pageLoading, pageError,
                   retryCount, fetching, viewTimer, viewRequest, patchLog, pageLast,
                   shownPage, slug, nVisits, nonViewVars>>

\* back to "/": BlogDetailPage unmounts, HomePage mounts and its effect
\* starts fetchBlogs
GoHome ==
    /\ shownPage = "detail"
    /\ fetching = None
    /\ shownPage' = "home"
    /\ slug' = NULL
    /\ blog' = None
    /\ blogs' = <<>>
    /\ filteredBlogs' = <<>>
    /\ homeLoading' = TRUE
    /\ homeError' = NULL
    /\ homeFetches' = 1
    /\ homeQuery' = <<>>
    /\ selectedCategory' = "All"
    /\ sortBy' = "date-desc"
    /\ currentSlide' = 0
    /\ homeLast' = [name |-> "mount"]
    /\ pageLast' = [name |-> "unmount"]
    /\ toast' = None
    /\ UNCHANGED <<pageLoading, pageError, retryCount, fetching, viewTimer, viewRequest,
                   viewedBlogs, patchLog, homeViews, nVisits, nonViewVars>>

\* the answer of GET /blogs/slug/:slug for the slug shown
SlugOutcome ==
    [kind |-> "body", success |-> TRUE,
     blog |-> CHOOSE b \in AllBlogs : b._id = slug]

ViewNext ==
    \/ /\ shownPage = "home"
       /\ fetchBlogsResumes([kind |-> "body", ok |-> TRUE, success |-> TRUE,
                             message |-> NULL, blogs |-> ViewedList])
    \/ \E k \in 1..Len(ViewedList) : handleBlogView(ViewedList[k])
    \/ \E call \in homeViews : \E o \in ViewOutcomes : handleBlogViewResumes(call, o)
    \/ /\ shownPage = "detail"
       /\ fetchBlogResumes(SlugOutcome)
    \/ PageTick
    \/ incrementViewCount
    \/ \E o \in ViewOutcomes : incrementViewCountResumes(o)
    \/ GoHome

\* HomePage after its first render, in a new browser session
ViewInit ==
    /\ HomeMounted
    /\ ViewIdle
    /\ PageIdle
    /\ ListIdle
    /\ TreeIdle
    /\ SearchMounted
    /\ NoToast
    /\ NetIdle
    /\ HeapIdle
    /\ AuthIdle
    /\ GateIdle

ViewSpec == ViewInit /\ [][ViewNext]_vars

ViewTypeOK ==
    /\ shownPage \in {"home", "detail"}
    /\ nVisits \in 0..MaxVisits
    /\ Len(patchLog) <= 2 * MaxVisits
    /\ \A call \in homeViews : call.visit \in 1..nVisits
    /\ \A k \in 1..Len(viewedBlogs) : ArrayIncludes(patchLog, viewedBlogs[k])

(***************************************************************************)
(* Properties.                                                             *)
(***************************************************************************)
Deleted == lastOp.name = "delete"
Edited == lastOp.name = "edit"
Liked == lastOp.name = "like"
Submitted == lastOp.name = "submit"
RepliedTo == Submitted /\ Truthy(lastOp.parentId)
Found == lastOp.name = "find"

\* the node `parent` with `node` appended to its replies
Appended(parent, node) ==
    [replies |-> (IF HasReplies(parent) THEN parent.replies ELSE <<>>) \o <<node>>]
      @@ parent

\* the fields of a node other than its replies
OwnFields(node) == DOMAIN node \ {"replies"}
SameOwnFields(a, b) ==
    /\ DOMAIN a = DOMAIN b
    /\ \A f \in OwnFields(a) : a[f] = b[f]

\* C1: removing an existing comment X of a forest with unique ids yields the
\* forest without X and X's subtree, every other node kept in place, at
\* whatever depth X sits.
C1_RemovesExactlySubtree ==
    (Deleted /\ UniqueIds(prevComments) /\ lastOp.id \in AllIds(prevComments))
        => comments = RemoveAt(prevComments, PathOf(prevComments, lastOp.id))

\* C2: after the removal of an existing comment X that has replies, neither
\* X nor any descendant of X can be found in the forest.
C2_SubtreeNotFindable ==
    (Deleted /\ UniqueIds(prevComments) /\ lastOp.id \in AllIds(prevComments))
        => LET px == PathOf(prevComments, lastOp.id) IN
           (\E q \in Paths(prevComments) : Below(px, q))
             => \A q \in Paths(prevComments) :
                  (q = px \/ Below(px, q))
                    => LET id == NodeAt(prevComments, q)._id IN
                       /\ findParentUsername(comments, id) = NULL
                       /\ id \notin AllIds(comments)

\* C3: inserting a fresh leaf under null or under an existing parent and
\* then removing it gives back the forest from before the insertion.
C3_InsertThenRemoveIsIdentity ==
    (/\ Deleted
     /\ insertBase.kind = "removed"
     /\ UniqueIds(insertBase.before)
     /\ insertBase.node._id \notin AllIds(insertBase.before)
     /\ (~Truthy(insertBase.parentId)
           \/ insertBase.parentId \in AllIds(insertBase.before)))
        => comments = insertBase.before

\* C4: an insertion under an id, a patch, a likes replacement and a removal
\* whose id no node carries leave the forest as it was.
C4_NotFoundIsNoOp ==
    /\ ((Liked \/ Edited \/ Deleted) /\ lastOp.id \notin AllIds(prevComments))
          => comments = prevComments
    /\ (RepliedTo /\ lastOp.parentId \notin AllIds(prevComments))
          => comments = prevComments

C4_Witness ==
    /\ RepliedTo /\ lastOp.parentId \notin AllIds(prevComments)
    /\ \E q \in Paths(prevComments) : Len(q) = 2

\* C5: a patch of an existing comment X changes the listed fields of X and
\* nothing else: X keeps its other fields and its replies, every other node
\* keeps its fields and its position.
C5_PatchChangesOnlyListedFields ==
    (Edited /\ UniqueIds(prevComments) /\ lastOp.id \in AllIds(prevComments))
        => LET px == PathOf(prevComments, lastOp.id)
               old == NodeAt(prevComments, px)
               new == NodeAt(comments, px)
               updates == lastOp.updates
           IN
           /\ Paths(comments) = Paths(prevComments)
           /\ \A q \in Paths(prevComments) \ {px} :
                 SameOwnFields(NodeAt(comments, q), NodeAt(prevComments, q))
           /\ DOMAIN new = DOMAIN old \cup DOMAIN updates
           /\ \A f \in DOMAIN updates : new[f] = updates[f]
           /\ \A f \in DOMAIN old \ DOMAIN updates : new[f] = old[f]

C5_Witness ==
    /\ Edited /\ UniqueIds(prevComments) /\ lastOp.id \in AllIds(prevComments)
    /\ Len(PathOf(prevComments, lastOp.id)) = 2
    /\ HasReplies(NodeAt(prevComments, PathOf(prevComments, lastOp.id)))
    /\ NodeAt(prevComments, PathOf(prevComments, lastOp.id)).replies # <<>>
    /\ comments # prevComments

\* C6: an insertion under an existing parent puts the new comment last in
\* that parent's replies (a parent without replies gets the one-element
\* sequence) and changes no other node.
C6_ReplyAppendedLast ==
    (RepliedTo /\ UniqueIds(prevComments) /\ lastOp.parentId \in AllIds(prevComments))
        => LET pp == PathOf(prevComments, lastOp.parentId) IN
           comments = ReplaceAt(prevComments, pp,
                                Appended(NodeAt(prevComments, pp), lastOp.node))

C6_Witness ==
    /\ RepliedTo /\ UniqueIds(prevComments) /\ lastOp.parentId \in AllIds(prevComments)
    /\ LET pp == PathOf(prevComments, lastOp.parentId) IN
       /\ Len(pp) = 2
       /\ HasReplies(NodeAt(prevComments, pp))
       /\ Len(NodeAt(prevComments, pp).replies) = 1
       /\ Len(NodeAt(comments, pp).replies) = 2
       /\ NodeAt(comments, pp).replies[2] = lastOp.node

\* C7: a submission with no reply target puts the new comment last in the
\* top-level sequence, the earlier top-level comments unchanged and in order.
C7_TopLevelAppendedLast ==
    (Submitted /\ ~Truthy(lastOp.parentId))
        => /\ Len(comments) = Len(prevComments) + 1
           /\ comments[Len(comments)] = lastOp.node
           /\ \A k \in 1..Len(prevComments) : comments[k] = prevComments[k]

C7_Witness ==
    /\ Submitted /\ ~Truthy(lastOp.parentId)
    /\ Len(prevComments) = 2
    /\ comments[3] = lastOp.node

\* C8: the likes replacement gives the forest that the patch with the one
\* field likes gives, for every forest, id and likes list.
C8_LikesIsPatchOfLikes ==
    Liked => comments = updateComment(prevComments, lastOp.id, [likes |-> lastOp.likes])

C8_Witness ==
    /\ Liked /\ lastOp.likes # <<>>
    /\ \E q \in PathsOf(prevComments, lastOp.id) :
          Len(q) = 2 /\ NodeAt(comments, q).likes = lastOp.likes

\* C9: the lookup returns the username of the author of a node carrying the
\* id, at whatever depth, and null for a null id and for an id no node carries.
C9_FindsUsernameAtAnyDepth ==
    Found =>
        IF Truthy(lastOp.id) /\ lastOp.id \in AllIds(comments)
        THEN \E q \in PathsOf(comments, lastOp.id) :
                lastOp.result = NodeAt(comments, q).user.username
        ELSE lastOp.result = NULL

C9_Witness ==
    /\ Found /\ UniqueIds(comments) /\ lastOp.id \in AllIds(comments)
    /\ Len(PathOf(comments, lastOp.id)) = 3
    /\ lastOp.result = NodeAt(comments, PathOf(comments, lastOp.id)).user.username

\* C10: when several nodes carry the id, an insertion, a patch, a likes
\* replacement and a removal act on the first of them in depth-first,
\* left-to-right order only, the others staying as they were.
C10_OnlyFirstDuplicateAffected ==
    LET id == IF Submitted THEN lastOp.parentId ELSE lastOp.id
        fp == FirstPathOf(prevComments, id)
        old == NodeAt(prevComments, fp)
    IN
    ((Liked \/ Edited \/ Deleted \/ RepliedTo)
       /\ Cardinality(PathsOf(prevComments, id)) >= 2)
        => comments =
             CASE Liked   -> ReplaceAt(prevComments, fp, [likes |-> lastOp.likes] @@ old)
               [] Edited  -> ReplaceAt(prevComments, fp, lastOp.updates @@ old)
               [] Deleted -> RemoveAt(prevComments, fp)
               [] OTHER   -> ReplaceAt(prevComments, fp, Appended(old, lastOp.node))

(***************************************************************************)
(* SearchBox properties.                                                   *)
(***************************************************************************)
TimerFired == searchLast.name = "fetchSuggestions"
Answered == searchLast.name = "response"

\* C16: every change of the query clears the pending timer before it arms a
\* new one, so at most one timer is pending; a timer that fires sends a
\* request only for the query the input still holds, and a timer that fires
\* for an empty or whitespace query sends no request, empties the
\* suggestions and closes the dropdown.
C16_Debounce ==
    /\ Cardinality(timers) <= 1
    /\ TimerFired /\ searchLast.sent =>
          /\ searchLast.query = searchQuery
          /\ trim(searchQuery) # <<>>
          /\ [seq |-> nRequests, query |-> searchQuery] \in requests
          /\ nRequests = searchLast.sentBefore + 1
    /\ TimerFired /\ ~searchLast.sent =>
          /\ searchLast.query = searchQuery
          /\ trim(searchQuery) = <<>>
          /\ nRequests = searchLast.sentBefore
          /\ suggestions = <<>>
          /\ ~isModalOpen

\* a timer armed after a request was sent fires for a query of blanks
C16_Witness ==
    /\ TimerFired
    /\ ~searchLast.sent
    /\ searchLast.query # <<>>
    /\ nRequests >= 1

\* C17: a keystroke leaves the requests in flight alone, and every response
\* is applied whatever its age: after it the suggestions are the blogs it
\* carried (none when it failed), the dropdown is open exactly when it
\* succeeded, and isLoading is false even with another request in flight.
C17_EveryResponseApplied ==
    /\ searchLast.name = "onChange" => requests = searchLast.requests
    /\ Answered =>
          /\ suggestions = (IF searchLast.outcome.kind = "body" /\ searchLast.outcome.success
                             THEN searchLast.outcome.blogs ELSE <<>>)
          /\ isModalOpen = (searchLast.outcome.kind = "body" /\ searchLast.outcome.success)
          /\ ~isLoading

\* the answer to the first request arrived after the answer to the second:
\* the suggestions shown are those of the older query, not of the query the
\* input holds
C17_Witness ==
    /\ Answered
    /\ searchLast.request.seq < nRequests
    /\ requests = {}
    /\ suggestions # <<>>
    /\ suggestions[1].title = searchLast.request.query
    /\ searchLast.request.query # searchQuery
    /\ timers = {}

\* isLoading is false while the newest request is still in flight
C17_Witness_Loading ==
    /\ ~isLoading
    /\ \E r \in requests : r.seq = nRequests


(***************************************************************************)
(* BlogDetailPage properties.                                              *)
(***************************************************************************)
Aborted == pageLast.name = "abort"

\* C14: a fetch of the blog that is unanswered AbortMs (ten seconds) after
\* it started is aborted, and no fetch is in flight for longer; after the
\* abort the page has loading false and the timeout message as its error,
\* whatever the retry count, and no fetch in flight.
C14_TimeoutMessage ==
    /\ fetching # None => fetching.elapsed <= AbortMs
    /\ Aborted =>
          /\ pageLast.elapsed = AbortMs
          /\ pageLoading = FALSE
          /\ pageError = TimeoutMessage
          /\ fetching = None

\* the last retry timed out: any other failure of it gives the load-failure message
C14_Witness ==
    /\ Aborted
    /\ pageLast.retryCount = maxRetries
    /\ pageError = TimeoutMessage


(***************************************************************************)
(* CommentList / CommentInput request properties.                          *)
(***************************************************************************)
Clicked == lastOp.name = "click"
Responded == lastOp.name = "response"
Crashed == route = "crashed"

\* the answer has a non-2xx status or carries success false
NotSuccess(outcome) == ~Rejected(outcome) /\ (~outcome.ok \/ ~outcome.success)

LoginPrompt(op) ==
    CASE op = "submit" -> "Please log in to comment"
      [] op = "like"   -> "Please log in to like a comment"
      [] op = "edit"   -> "Please log in to edit a comment"

\* C12: with no token in local storage a click on submit, on like or on the
\* Save button of the edit form sends no request: it shows the log-in
\* prompt as an error toast, leaves the forest as it was, and a submit
\* redirects to /auth.
C12_NoTokenNoRequest ==
    Clicked /\ ~lastOp.token /\ lastOp.op \in {"submit", "like", "edit"} =>
        /\ nCalls = lastOp.nCalls
        /\ toast = ErrorToast(LoginPrompt(lastOp.op))
        /\ comments = prevComments
        /\ lastOp.op = "submit" => route = "/auth"

\* the Save button of an edit form is clicked without a token
C12_Witness ==
    /\ Clicked
    /\ ~lastOp.token
    /\ lastOp.op = "edit"
    /\ toast.kind = "error"

\* C13: an answer with a non-2xx status or with success false is shown as
\* an error and not as a success, and leaves the forest untouched, for
\* submit, like, edit and delete alike.
C13_NotSuccessIsError ==
    Responded /\ NotSuccess(lastOp.outcome) =>
        /\ toast.kind = "error"
        /\ comments = prevComments

C18_NoLostLike ==
    ~Crashed =>
        \A id \in DOMAIN likeLog : \A q \in PathsOf(comments, id) :
            NodeAt(comments, q).likes = likeLog[id].likes

\* likes of two comments were in flight together; both are answered and
\* both lists are in the forest
C18_Witness ==
    /\ ~Crashed
    /\ calls = {}
    /\ \E a, b \in DOMAIN likeLog :
          /\ a # b
          /\ \E c \in likeLog[a].waiting : c.op = "like" /\ c.id = b
          /\ likeLog[a].likes # <<>> /\ likeLog[b].likes # <<>>
          /\ \A id \in {a, b} : \E q \in PathsOf(comments, id) :
                NodeAt(comments, q).likes = likeLog[id].likes

\* a mutation request of the comment list or a view-count increment failed
MutationFailed ==
    \/ Responded /\ (Rejected(lastOp.outcome) \/ NotSuccess(lastOp.outcome))
    \/ pageLast.name = "viewResponse" /\ ~Accepted(pageLast.outcome)

\* C19: a mutation request that fails through a network error or a
\* non-success response ends with a notification shown to the user.
C19_FailureNotified == MutationFailed => toast # None

\* C20: the loading flag of the CommentInput is true only while its submit
\* request waits for the answer, and it is false after the answer, be it a
\* success, a non-2xx status or a network failure.
C20_LoadingCleared ==
    /\ inputLoading => \E c \in calls : c.op = "submit"
    /\ Responded /\ lastOp.call.op = "submit" => ~inputLoading

\* the submit failed on the network; the input is usable again
C20_Witness ==
    /\ Responded
    /\ lastOp.call.op = "submit"
    /\ Rejected(lastOp.outcome)
    /\ ~inputLoading
    /\ route = "blog"


(***************************************************************************)
(* Properties of the tree functions on objects and arrays.                 *)
(***************************************************************************)
\* C11: after an insertion, a patch, a replacement of likes or a removal,
\* no cell that existed before has changed, so the forest behind the
\* previous reference has the nodes, fields and children sequences it had.
C11_InputNotMutated ==
    nOps > 0 =>
        /\ \A a \in DOMAIN prevHeap : heap[a] = prevHeap[a]
        /\ ForestOf(heap, prevRoot) = ForestOf(prevHeap, prevRoot)

\* a reply was inserted under a comment that had replies: the result is a
\* new array and the previous reference still shows the forest without it
C11_Witness ==
    /\ nOps > 0
    /\ lastOp.name = "submit"
    /\ Truthy(lastOp.parentId)
    /\ \E q \in PathsOf(prevComments, lastOp.parentId) :
          HasReplies(NodeAt(prevComments, q))
    /\ root # prevRoot
    /\ ForestOf(heap, root) # ForestOf(heap, prevRoot)
    /\ ForestOf(heap, prevRoot) = prevComments


\* the address of the comment at `path` of the forest behind array `arr`
RECURSIVE AddrAt(_, _, _)
AddrAt(h, arr, path) ==
    IF Len(path) = 1 THEN h[arr].items[path[1]]
    ELSE AddrAt(h, h[h[arr].items[path[1]]].replies, Tail(path))

\* the last step ran one of the map-based functions, aimed at MapTarget
MapStep ==
    /\ nOps > 0
    /\ \/ lastOp.name \in {"like", "edit"}
       \/ lastOp.name = "submit" /\ Truthy(lastOp.parentId)
MapTarget == IF lastOp.name = "submit" THEN lastOp.parentId ELSE lastOp.id

\* the node at path q of the input is the same object in the result
SameObject(q) == AddrAt(heap, root, q) = AddrAt(prevHeap, prevRoot, q)

\* q is the position of a node with the target id or of one of its ancestors
OnChain(q) ==
    \E p \in PathsOf(prevComments, MapTarget) : q = p \/ Below(q, p)

\* q lies in the subtree below a node with the target id
BelowTarget(q) ==
    \E p \in PathsOf(prevComments, MapTarget) : Below(p, q)

\* C21 as stated: when a tree operation changes the node X, every node that
\* is neither X nor an ancestor of X is the same object in the result as in
\* the input.
C21_OutsideChainShared ==
    MapStep /\ MapTarget \in AllIds(prevComments) =>
        \A q \in Paths(prevComments) : ~OnChain(q) => SameObject(q)

\* C21 amended: a map-based operation aimed at X rebuilds X and every node
\* with a replies property that does not lie below an X, on the chain of X
\* or not; the nodes below an X and the other nodes without a replies
\* property are the same objects as before.  A removal and a top-level
\* insertion build a new top-level array whose comments are all objects of
\* the input.
C21_RebuildsNodesWithReplies ==
    /\ MapStep =>
          \A q \in Paths(prevComments) :
              LET node == NodeAt(prevComments, q) IN
              IF BelowTarget(q) \/ (node._id # MapTarget /\ ~HasReplies(node))
              THEN SameObject(q)
              ELSE AddrAt(heap, root, q) \notin DOMAIN prevHeap
    /\ nOps > 0 /\ lastOp.name = "delete" =>
          /\ root \notin DOMAIN prevHeap
          /\ \A k \in 1..Len(heap[root].items) :
                \E j \in 1..Len(prevHeap[prevRoot].items) :
                    heap[root].items[k] = prevHeap[prevRoot].items[j]
    /\ nOps > 0 /\ lastOp.name = "submit" /\ ~Truthy(lastOp.parentId) =>
          /\ root \notin DOMAIN prevHeap
          /\ \A k \in 1..Len(prevHeap[prevRoot].items) :
                heap[root].items[k] = prevHeap[prevRoot].items[k]

\* the likes of a comment were replaced; a comment off its chain that has a
\* replies array was rebuilt and a comment off its chain without one was
\* reused
C21_Witness ==
    /\ MapStep
    /\ lastOp.name = "like"
    /\ MapTarget \in AllIds(prevComments)
    /\ \E q \in Paths(prevComments) :
          ~OnChain(q) /\ ~BelowTarget(q) /\ ~SameObject(q)
    /\ \E q \in Paths(prevComments) :
          ~OnChain(q) /\ ~BelowTarget(q) /\ SameObject(q)


(***************************************************************************)
(* Properties of the comment inputs.                                       *)
(***************************************************************************)
\* the answer to a submit that handleSubmit takes as a success and that
\* carries the created comment
SubmitSucceeded ==
    /\ Responded
    /\ lastOp.call.op = "submit"
    /\ ~Rejected(lastOp.outcome)
    /\ lastOp.outcome.ok
    /\ "data" \in DOMAIN lastOp.outcome

\* C22: when a submit succeeds the returned comment is put where the
\* parentComment it was sent with says: appended to the top level when that
\* was null, appended to the replies of that comment otherwise.
C22_PlacedUnderSentParent ==
    SubmitSucceeded =>
        comments = IF ~Truthy(lastOp.call.parentCommentId)
                   THEN prevComments \o <<lastOp.outcome.data>>
                   ELSE addReplyToComment(prevComments, lastOp.call.parentCommentId,
                                          lastOp.outcome.data)


(***************************************************************************)
(* Properties of the BlogDetailPage retries.                               *)
(***************************************************************************)
\* the fetch of the blog failed with an error that is not the timeout
FetchFailed ==
    /\ pageLast.name = "fetchResponse"
    /\ ~(Accepted(pageLast.outcome) /\ pageLast.outcome.blog # None)

\* C25: the fetch in flight is attempt number retryCount + 1 and retryCount
\* never exceeds 3; a failure of an attempt below that starts the next one,
\* a failure of the last one ends in the error state with loading false;
\* once the blog is there the counter is 0, nothing is fetched and nothing
\* is loading.
C25_BoundedRetry ==
    /\ retryCount \in 0..maxRetries
    /\ fetching # None => fetching.retryCount = retryCount /\ blog = None
    /\ FetchFailed =>
          IF pageLast.retryCount < maxRetries
          THEN /\ retryCount = pageLast.retryCount + 1
               /\ fetching # None
               /\ pageError = NULL
          ELSE /\ retryCount = maxRetries
               /\ fetching = None
               /\ pageError = LoadFailedMessage
               /\ ~pageLoading
    /\ blog # None =>
          /\ retryCount = 0
          /\ fetching = None
          /\ ~pageLoading
          /\ pageError = NULL

\* the initial attempt and three retries have failed: the page shows the error
C25_Witness ==
    /\ FetchFailed
    /\ pageLast.retryCount = maxRetries
    /\ pageError = LoadFailedMessage
    /\ ~pageLoading
    /\ fetching = None

\* a retry succeeded: the counter is back at 0 and nothing is fetched
C25_Witness_Recovered ==
    /\ pageLast.name = "fetchResponse"
    /\ pageLast.retryCount > 0
    /\ blog # None
    /\ retryCount = 0
    /\ fetching = None


(***************************************************************************)
(* Properties of HomePage.                                                 *)
(***************************************************************************)
\* C26: whenever the slideshow has n >= 1 blogs, currentSlide is one of
\* 0 .. min(3, n) - 1.
C26_SlideInRange ==
    Len(slideshowBlogs) >= 1 =>
        currentSlide \in 0..(Min(slideLimit, Len(slideshowBlogs)) - 1)

\* the array is in the order of the compare function of `key`
Ordered(array, key) ==
    \A i, j \in 1..Len(array) : i < j => Compare(key, array[i], array[j]) <= 0

\* C29: with an empty search query the blogs of the grid are in the order
\* of the selected sort key: the grid shows the list sortedAndFilteredBlogs
\* returned, which the slideshow has not reordered.
C29_GridFollowsSortBy ==
    homeQuery = <<>> =>
        /\ Ordered(filteredBlogs, sortBy)
        /\ filteredBlogs = sortedAndFilteredBlogs(blogs, homeQuery, selectedCategory, sortBy)


(***************************************************************************)
(* Properties of the list fetches.                                         *)
(***************************************************************************)
\* the last step processed an answer that delivered the list
Fetched(last) ==
    /\ last.name = "response"
    /\ ~Rejected(last.outcome)
    /\ last.outcome.ok
    /\ last.outcome.success

\* C23: when a fetch of the comment list or of the blog list succeeds, the
\* view shows the fetched data, is not loading and has no error, whatever
\* attempts failed before.
C23_RetryRecovers ==
    /\ Fetched(listLast) =>
          /\ comments = listLast.outcome.comments
          /\ ~listLoading
          /\ listError = NULL
    /\ Fetched(homeLast) =>
          /\ blogs = homeLast.outcome.blogs
          /\ ~homeLoading
          /\ homeError = NULL

\* no blog id has two PATCH /blogs/:id/view requests
NoSecondPatch == \A i, j \in 1..Len(patchLog) : patchLog[i] = patchLog[j] => i = j

\* the last answer of a PATCH has dropped no id from sessionStorage's viewedBlogs
NoIdDropped ==
    /\ homeLast.name = "viewResponse" =>
           \A k \in 1..Len(homeLast.before) : ArrayIncludes(viewedBlogs, homeLast.before[k])
    /\ pageLast.name = "viewResponse" =>
           \A k \in 1..Len(pageLast.before) : ArrayIncludes(viewedBlogs, pageLast.before[k])

\* C24: in one browser session at most one PATCH /blogs/:id/view is sent
\* for a blog id, whatever the order of the clicks on HomePage's blog
\* links, BlogDetailPage's own increment and the answers, and an id
\* recorded in viewedBlogs is never dropped from it.
C24_OneViewPerBlog == NoSecondPatch /\ NoIdDropped

\* C27: the text held in commentText never has more than maxLength
\* characters, whatever is typed and picked from the emoji picker, so no
\* comment longer than maxLength is submitted.
C27_TextWithinMaxLength ==
    /\ Len(commentText) <= maxLength
    /\ \A c \in calls : c.op = "submit" => Len(c.text) <= maxLength

\* the context's user is set only with a token in localStorage
UserOnlyWithToken == ~authLoading /\ user # None => token

\* login has set user, stored user and token together
LoginSetsAll == lastOp.name = "login" =>
    user = lastOp.user /\ storedUser = lastOp.user /\ token

\* logout, and Log out of the user menu, have cleared all three
LogoutClearsAll == lastOp.name \in {"logout", "handleLogout"} =>
    user = None /\ storedUser = None /\ ~token

\* C28: once AuthProvider has loaded, the context's user is non-null only
\* if localStorage holds a token; login sets user, stored user and token
\* together and logout clears all three, and no other handler removes the
\* token and leaves the user set.
C28_SessionConsistent == UserOnlyWithToken /\ LoginSetsAll /\ LogoutClearsAll

\* C30: ProtectedRoute redirects a logged-out user to /auth; for a
\* logged-in user it renders its children exactly when requiredRole is
\* absent or equals the user's role, and redirects to /unAuthorized
\* exactly when requiredRole is given and differs from the user's role.
C30_RoleGate ==
    gate # None =>
       IF gate.user = None
       THEN gate.rendered = "/auth"
       ELSE /\ gate.rendered = "children" <=>
                  (gate.requiredRole = NULL \/ gate.requiredRole = gate.user.role)
            /\ gate.rendered = "/unAuthorized" <=>
                  (gate.requiredRole # NULL /\ gate.requiredRole # gate.user.role)

=============================================================================
